---- MODULE Spec2Model ----
(***************************************************************************)
(* State-machine model of the EigenKor symbol admin panel: the token       *)
(* store (lib/auth.ts), the API client and its request interceptor         *)
(* (lib/api.ts), the Auth Gate (components/withAuth.tsx), login and        *)
(* logout, the data-access hooks and the ingestion-list reconciliation.    *)
(***************************************************************************)
EXTENDS Naturals, Integers, Sequences, FiniteSets, Bags, TLC

VARIABLES
    token,        \* localStorage['authToken']; "" when absent
    validTokens,  \* backend: tokens it still accepts
    nextTok,      \* backend: number of the next token it issues
    pathname,     \* usePathname()
    wrapped,      \* the mounted page is a withAuth Wrapper
    isLoading,    \* Wrapper's useState(true)
    gate,         \* position of the Wrapper's verifyToken
    navPending,   \* target of a router.push not yet committed; "" when none
    inflight,     \* requests handed to axios and not yet settled in the client
    loginLoading, \* LoginPage's loading flag
    verifiedOk,   \* history: the backend answered this mount's /users/me/ with 2xx
    lastEvent,    \* history: the handler that ran last
    ingestedSymbols, \* IngestionPage: data of useIngestedSymbols()
    batch,           \* the symbols a modal hands to the page
    submitted,       \* the list handed to setSymbolsMutation
    mergePhase,      \* "idle"; "submitted" after a merge; "rejected" after
                     \* a bulk upload that parsed to nothing
    textInput,       \* BulkUploadModal: the pasted or uploaded text
    formEvent,       \* history: the modal form submitted last and its fields
    searchString,          \* DiscoveryPage: the search input's text
    debouncedSearchString, \* value of useDebounce(searchString, 500)
    pendingDebounce,       \* a debounce timer is running
    sinceInput,            \* ms since the input last changed (capped)
    exchange,              \* exchange filter
    securityType,          \* security-type filter
    searchCalls,           \* params of the search requests in flight
    searchCache,           \* the QueryClient's entries under ['symbols', params]
    quietMs,               \* history: how long the debounced text had stood
                           \* unchanged in the input when it was adopted
    backendSymbols,  \* the ingestion list the backend stores
    backendConfig,   \* the system config the backend stores
    queryCache,      \* the QueryClient's entries, one per query key
    symbolCalls,     \* ingestion-list requests in flight
    configCalls,     \* system-config requests in flight
    cacheEvent,      \* history: the hook callback or mount that ran last
    replaceLog,      \* history: the last full replacement and the read after it
    window,          \* lib/auth.ts: typeof window !== 'undefined'
    storeLog,        \* history: the token-store calls made and what each returned
    localConfig,     \* SystemConfig component: the editable draft
    configSent       \* history: the config handed to setConfigMutation last

authVars == <<token, validTokens, nextTok, pathname, wrapped, isLoading, gate,
              navPending, inflight, loginLoading, 
              verifiedOk, lastEvent>>

mergeVars == <<ingestedSymbols, batch, submitted, mergePhase, textInput,
               formEvent>>

searchVars == <<searchString, debouncedSearchString, pendingDebounce,
                sinceInput, exchange, securityType, searchCalls, searchCache,
                quietMs>>

cacheVars == <<backendSymbols, backendConfig, queryCache, symbolCalls,
               configCalls, cacheEvent, replaceLog>>

storeVars == <<window, storeLog>>

draftVars == <<localConfig, configSent>>

\* What the auth-gate specification leaves alone.
dataVars == <<mergeVars, searchVars, cacheVars, storeVars, draftVars>>

\* What the ingestion-page merges leave alone.
outsideMerge == <<authVars, searchVars, cacheVars, storeVars, draftVars>>

\* What the discovery page's search leaves alone.
outsideSearch == <<authVars, mergeVars, cacheVars, storeVars, draftVars>>

\* What the data-access hooks leave alone: everything but the route and
\* their own state.
outsideCache == <<token, validTokens, nextTok, wrapped, isLoading, gate,
                  navPending, inflight, loginLoading, verifiedOk, lastEvent,
                  mergeVars, searchVars, storeVars, draftVars>>

vars == <<authVars, dataVars>>

-----------------------------------------------------------------------------
(* Bounds *)

MaxLogins == 1
MaxInFlight == 2

-----------------------------------------------------------------------------
(* Token store: lib/auth.ts.  The pages run in the browser                 *)
(* (typeof window !== 'undefined'); only the token-store specification     *)
(* also runs without one.  localStorage.getItem gives null for a missing   *)
(* key; every reader tests the result for truthiness only, so null and ""  *)
(* are one value here.                                                     *)

NoToken == ""

getToken == IF window THEN token ELSE NoToken

setToken(t) == token' = IF window THEN t ELSE token

\* Mutant: removeItem leaves the stored item in place.
RemoveTokenKeepsItem == token' = token

removeToken == token' = IF window THEN NoToken ELSE token

isAuthenticated == getToken # NoToken

\* The n-th access token the backend issues.
TokStr(n) == "t" \o <<"1", "2", "3", "4", "5", "6", "7", "8", "9">>[n]

-----------------------------------------------------------------------------
(* API client: lib/api.ts *)

LoginRoute == "/login"
Routes == {"/login", "/", "/ingestion"}

NoHeader == ""

\* Mutant: the interceptor never attaches the header.
InterceptorDropsToken(tok) == NoHeader

\* api.interceptors.request.use: Authorization is set only for a truthy token.
Interceptor(tok) == IF tok # NoToken THEN "Bearer " \o tok ELSE NoHeader

\* One call through the axios instance: the request interceptor reads the
\* token store when the request is sent.
Request(kind) ==
    [kind |-> kind, auth |-> Interceptor(getToken), mounted |-> TRUE,
     status |-> "sent", data |-> ""]

HasRoom(fl) == BagCardinality(fl) < MaxInFlight

Send(fl, kind) == fl (+) SetToBag({Request(kind)})

Release(fl, r) == fl (-) SetToBag({r})

Answer(fl, r, status, data) ==
    (fl (-) SetToBag({r})) (+) SetToBag({[r EXCEPT !.status = status, !.data = data]})

Unmounted(r) == [r EXCEPT !.mounted = FALSE]

\* The requests of a page that unmounts stay in flight.
Detach(fl) ==
    [x \in {Unmounted(r) : r \in BagToSet(fl)} |->
        CopiesIn(x, fl) + CopiesIn([x EXCEPT !.mounted = TRUE], fl)]

Pending == BagToSet(inflight)

\* The data-access calls a page can make (lib/api.ts, hooks/): the ingestion
\* page reads and replaces the ingestion list; "data" stands for any of them.
PageKinds(route) ==
    CASE route = "/ingestion" -> {"data"}
      [] OTHER -> {}

DataKinds == UNION {PageKinds(r) : r \in Routes}

-----------------------------------------------------------------------------
(* Rendering *)

\* The page's own content is on screen: a Wrapper renders WrappedComponent
\* only when isLoading is false.
Rendered == wrapped => ~isLoading

Ev(type, cur, status) == [type |-> type, cur |-> cur, status |-> status]

-----------------------------------------------------------------------------
(* Initial state: a page load.  localStorage is empty, or holds the token  *)
(* an earlier session saved, which the backend may or may not still accept. *)

StoredToken == "t0"

\* No merge under way: the page holds no data and no modal has submitted.
\* A modal form's submit: which form, and the two fields of the add form.
FormEvent(form, symbol, exchangeCode) ==
    [form |-> form, symbol |-> symbol, exchange |-> exchangeCode]

NoFormEvent == FormEvent("none", <<>>, <<>>)

MergeIdle ==
    /\ formEvent = NoFormEvent
    /\ ingestedSymbols = <<>>
    /\ batch = <<>>
    /\ submitted = <<>>
    /\ mergePhase = "idle"
    /\ textInput = <<>>

\* DiscoveryPage as mounted: useState('') and the debounce's first value.
SearchIdle ==
    /\ searchString = ""
    /\ debouncedSearchString = ""
    /\ pendingDebounce = FALSE
    /\ sinceInput = 0
    /\ exchange = ""
    /\ securityType = ""
    /\ searchCalls = {}
    /\ searchCache = {}
    /\ quietMs = 0

\* A new QueryClient: no entry holds data, nothing is in flight.
EmptyEntry(none) == [has |-> FALSE, data |-> none, invalidated |-> FALSE]

CacheEvent(type, key, issued) == [type |-> type, key |-> key, issued |-> issued]

\* The history of a full replacement: the list stored, whether the backend
\* held a symbol the list does not, and how far the client has come ("off":
\* not recorded; "submissions": each replacement request records the
\* backend's list at its submission instead).
ReplaceLog(phase, list, dropped) ==
    [phase |-> phase, list |-> list, dropped |-> dropped]

\* One call of the token store and what it returned ("" for void).
StoreCall(op, arg, out) == [op |-> op, arg |-> arg, out |-> out]

StoreIdle ==
    /\ window = TRUE
    /\ storeLog = <<>>

\* lib/types.ts SystemConfig.  A JavaScript number is kept in tenths, so
\* that 1.5 is 15 and an integer is a multiple of 10.
SystemConfigType(hour, minute, days) ==
    [schedule_hour |-> hour, schedule_minute |-> minute,
     timeframes_to_fetch |-> days]

Timeframes == {"1d"}

\* useState<SystemConfigType | null>(null): present is FALSE for null.
Draft(present, config) == [present |-> present, config |-> config]

NoDraft == Draft(FALSE, SystemConfigType(0, 0, [tf \in Timeframes |-> 0]))

DraftIdle ==
    /\ localConfig = NoDraft
    /\ configSent = NoDraft

CacheIdle ==
    /\ replaceLog = ReplaceLog("off", <<>>, FALSE)
    /\ backendSymbols = <<>>
    /\ backendConfig = "c1"
    /\ queryCache = [ingestedSymbols |-> EmptyEntry(<<>>),
                     systemConfig |-> EmptyEntry("")]
    /\ symbolCalls = EmptyBag
    /\ configCalls = EmptyBag
    /\ cacheEvent = CacheEvent("init", "none", FALSE)

Init ==
    /\ MergeIdle
    /\ SearchIdle
    /\ StoreIdle
    /\ DraftIdle
    /\ CacheIdle
    /\ token \in {NoToken, StoredToken}
    /\ validTokens \in (IF token = NoToken THEN {{}} ELSE {{}, {StoredToken}})
    /\ nextTok = 1
    /\ pathname \in Routes
    /\ wrapped \in (IF pathname = LoginRoute THEN BOOLEAN ELSE {TRUE})
    /\ isLoading = wrapped
    /\ gate = IF wrapped THEN "Unverified" ELSE "None"
    /\ navPending = ""
    /\ inflight = EmptyBag
    /\ loginLoading = FALSE
    /\ verifiedOk = FALSE
    /\ lastEvent = Ev("init", TRUE, "")

-----------------------------------------------------------------------------
(* Navigation *)

\* A sidebar link (layout.tsx): the sidebar is shown on every route but /login.
UserNavigate(r) ==
    /\ UNCHANGED dataVars
    /\ pathname # LoginRoute
    /\ r \in Routes \ {LoginRoute}
    /\ navPending' = r
    /\ lastEvent' = Ev("navigate", TRUE, "")
    /\ UNCHANGED <<token, validTokens, nextTok, pathname, wrapped, isLoading, gate,
                   inflight, loginLoading, verifiedOk>>

\* Mutant: the Wrapper of the new route takes over the old one's verdict.
CommitNavKeepsVerdict ==
    /\ UNCHANGED dataVars
    /\ navPending # ""
    /\ navPending' = ""
    /\ IF navPending = pathname
       THEN /\ lastEvent' = Ev("samepage", TRUE, "")
            /\ UNCHANGED <<pathname, wrapped, isLoading, gate, inflight, loginLoading,
                           verifiedOk>>
       ELSE \E w \in (IF navPending = LoginRoute THEN BOOLEAN ELSE {TRUE}) :
            /\ pathname' = navPending
            /\ wrapped' = w
            /\ isLoading' = IF w /\ wrapped THEN isLoading ELSE w
            /\ gate' = IF w THEN (IF wrapped THEN gate ELSE "Unverified") ELSE "None"
            /\ inflight' = Detach(inflight)
            /\ loginLoading' = FALSE
            /\ verifiedOk' = FALSE
            /\ lastEvent' = Ev("mount", TRUE, "")
    /\ UNCHANGED <<token, validTokens, nextTok>>

\* The router commits a pending navigation: the old page unmounts (what it has
\* in flight stays in flight, its state setters become no-ops) and the page of
\* the new route mounts.  Every route but /login is exported through withAuth;
\* LoginPage is exported bare, and withAuth also serves a page under /login.
CommitNav ==
    /\ UNCHANGED dataVars
    /\ navPending # ""
    /\ navPending' = ""
    /\ IF navPending = pathname
       THEN /\ lastEvent' = Ev("samepage", TRUE, "")
            /\ UNCHANGED <<pathname, wrapped, isLoading, gate, inflight, loginLoading,
                           verifiedOk>>
       ELSE \E w \in (IF navPending = LoginRoute THEN BOOLEAN ELSE {TRUE}) :
            /\ pathname' = navPending
            /\ wrapped' = w
            /\ isLoading' = w
            /\ gate' = IF w THEN "Unverified" ELSE "None"
            /\ inflight' = Detach(inflight)
            /\ loginLoading' = FALSE
            /\ verifiedOk' = FALSE
            /\ lastEvent' = Ev("mount", TRUE, "")
    /\ UNCHANGED <<token, validTokens, nextTok>>

\* Mutant: logout redirects without removeToken().
LogoutKeepsToken ==
    /\ UNCHANGED dataVars
    /\ pathname # LoginRoute
    /\ navPending' = LoginRoute
    /\ lastEvent' = Ev("logout", TRUE, "")
    /\ UNCHANGED <<token, validTokens, nextTok, pathname, wrapped, isLoading, gate,
                   inflight, loginLoading, verifiedOk>>

\* layout.tsx handleLogout
Logout ==
    /\ UNCHANGED dataVars
    /\ pathname # LoginRoute
    /\ token' = NoToken
    /\ navPending' = LoginRoute
    /\ lastEvent' = Ev("logout", TRUE, "")
    /\ UNCHANGED <<validTokens, nextTok, pathname, wrapped, isLoading, gate,
                   inflight, loginLoading, verifiedOk>>

-----------------------------------------------------------------------------
(* Auth Gate: withAuth.tsx *)

\* Mutant: on the login route the gate still looks the token up and
\* redirects when there is none.
VerifyLoginRouteChecksToken ==
    /\ pathname = LoginRoute
    /\ isLoading' = FALSE
    /\ gate' = "Skipped"
    /\ navPending' = IF getToken = NoToken THEN LoginRoute ELSE navPending
    /\ UNCHANGED <<inflight>>

\* verifyToken up to its first await, run by the Wrapper's effect after mount.
VerifyLoginRoute ==
    /\ pathname = LoginRoute
    /\ isLoading' = FALSE
    /\ gate' = "Skipped"
    /\ UNCHANGED <<navPending, inflight>>

\* Mutant: the missing-token branch still calls the backend before redirecting.
VerifyNoTokenCalls ==
    /\ pathname # LoginRoute
    /\ getToken = NoToken
    /\ HasRoom(inflight)
    /\ inflight' = Send(inflight, "me")
    /\ navPending' = LoginRoute
    /\ gate' = "Redirecting"
    /\ UNCHANGED <<isLoading>>

VerifyNoToken ==
    /\ pathname # LoginRoute
    /\ getToken = NoToken
    /\ navPending' = LoginRoute
    /\ gate' = "Redirecting"
    /\ UNCHANGED <<isLoading, inflight>>

VerifyCall ==
    /\ pathname # LoginRoute
    /\ getToken # NoToken
    /\ HasRoom(inflight)
    /\ inflight' = Send(inflight, "me")
    /\ gate' = "Verifying"
    /\ UNCHANGED <<isLoading, navPending>>

RunEffect ==
    /\ UNCHANGED dataVars
    /\ wrapped
    /\ gate = "Unverified"
    /\ (VerifyLoginRoute \/ VerifyNoToken \/ VerifyCall)
    /\ lastEvent' = Ev("effect", TRUE, "")
    /\ UNCHANGED <<token, validTokens, nextTok, pathname, wrapped, loginLoading,
                   verifiedOk>>

\* What a rejected call reports: the backend's refusal if that is the
\* answer, and otherwise a network failure, which can take the request or
\* any answer at any time.
Failure(r) == IF r.status = "unauth" THEN "unauth" ELSE "neterr"

\* Mutant: the try block ends without setIsLoading(false).
HandleMeOkStaysLoading(r) ==
    /\ UNCHANGED dataVars
    /\ r.kind = "me"
    /\ r.status = "ok"
    /\ inflight' = Release(inflight, r)
    /\ lastEvent' = Ev("meOk", r.mounted, "ok")
    /\ UNCHANGED <<token, validTokens, nextTok, pathname, wrapped, isLoading,
                   gate, navPending, loginLoading, verifiedOk>>

\* verifyToken after `await getCurrentUser()` resolved.
HandleMeOk(r) ==
    /\ UNCHANGED dataVars
    /\ r.kind = "me"
    /\ r.status = "ok"
    /\ inflight' = Release(inflight, r)
    /\ isLoading' = IF r.mounted THEN FALSE ELSE isLoading
    /\ gate' = IF r.mounted THEN "Authorized" ELSE gate
    /\ lastEvent' = Ev("meOk", r.mounted, "ok")
    /\ UNCHANGED <<token, validTokens, nextTok, pathname, wrapped, navPending,
                   loginLoading, verifiedOk>>

\* Mutant: setIsLoading(false) moved to a finally block, so the catch path
\* renders too.
HandleMeFailRenders(r) ==
    /\ UNCHANGED dataVars
    /\ r.kind = "me"
    /\ inflight' = Release(inflight, r)
    /\ token' = NoToken
    /\ navPending' = LoginRoute
    /\ isLoading' = IF r.mounted THEN FALSE ELSE isLoading
    /\ gate' = IF r.mounted THEN "Redirecting" ELSE gate
    /\ lastEvent' = Ev("meFail", r.mounted, Failure(r))
    /\ UNCHANGED <<validTokens, nextTok, pathname, wrapped,
                   loginLoading, verifiedOk>>

\* Mutant: the catch block redirects without removeToken().
HandleMeFailKeepsToken(r) ==
    /\ UNCHANGED dataVars
    /\ r.kind = "me"
    /\ inflight' = Release(inflight, r)
    /\ navPending' = LoginRoute
    /\ gate' = IF r.mounted THEN "Redirecting" ELSE gate
    /\ lastEvent' = Ev("meFail", r.mounted, Failure(r))
    /\ UNCHANGED <<token, validTokens, nextTok, pathname, wrapped, isLoading,
                   loginLoading, verifiedOk>>

\* verifyToken's catch block.
HandleMeFail(r) ==
    /\ UNCHANGED dataVars
    /\ r.kind = "me"
    /\ inflight' = Release(inflight, r)
    /\ token' = NoToken
    /\ navPending' = LoginRoute
    /\ gate' = IF r.mounted THEN "Redirecting" ELSE gate
    /\ lastEvent' = Ev("meFail", r.mounted, Failure(r))
    /\ UNCHANGED <<validTokens, nextTok, pathname, wrapped, isLoading,
                   loginLoading, verifiedOk>>

-----------------------------------------------------------------------------
(* Login page *)

\* What the form held at the submit (history).
Fields(username, password) ==
    IF username = "" \/ password = "" THEN "empty" ELSE "filled"

Usernames == {"", "admin"}
Passwords == {"", "secret"}

\* LoginPage.handleSubmit up to its await.  The submit button is disabled
\* while loading.
LoginSubmit(username, password) ==
    /\ UNCHANGED dataVars
    /\ pathname = LoginRoute
    /\ Rendered
    /\ ~loginLoading
    /\ IF username = "" \/ password = ""
       THEN /\ lastEvent' = Ev("loginInvalid", TRUE, Fields(username, password))
            /\ UNCHANGED <<inflight, loginLoading>>
       ELSE /\ HasRoom(inflight)
            /\ inflight' = Send(inflight, "login")
            /\ loginLoading' = TRUE
            /\ lastEvent' = Ev("loginSubmit", TRUE, Fields(username, password))
    /\ UNCHANGED <<token, validTokens, nextTok, pathname, wrapped, isLoading, gate,
                   navPending, verifiedOk>>

\* Mutant: login success navigates without setToken().
HandleLoginOkSkipsSave(r) ==
    /\ UNCHANGED dataVars
    /\ r.kind = "login"
    /\ r.status = "ok"
    /\ inflight' = Release(inflight, r)
    /\ navPending' = "/"
    /\ loginLoading' = IF r.mounted THEN FALSE ELSE loginLoading
    /\ lastEvent' = Ev("loginOk", r.mounted, "ok")
    /\ UNCHANGED <<token, validTokens, nextTok, pathname, wrapped, isLoading, gate,
                   verifiedOk>>

\* LoginPage.handleSubmit after `await loginUser(...)` resolved.
HandleLoginOk(r) ==
    /\ UNCHANGED dataVars
    /\ r.kind = "login"
    /\ r.status = "ok"
    /\ inflight' = Release(inflight, r)
    /\ token' = r.data
    /\ navPending' = "/"
    /\ loginLoading' = IF r.mounted THEN FALSE ELSE loginLoading
    /\ lastEvent' = Ev("loginOk", r.mounted, "ok")
    /\ UNCHANGED <<validTokens, nextTok, pathname, wrapped, isLoading, gate,
                   verifiedOk>>

\* LoginPage.handleSubmit's catch block.
HandleLoginFail(r) ==
    /\ UNCHANGED dataVars
    /\ r.kind = "login"
    /\ inflight' = Release(inflight, r)
    /\ loginLoading' = IF r.mounted THEN FALSE ELSE loginLoading
    /\ lastEvent' = Ev("loginFail", r.mounted, Failure(r))
    /\ UNCHANGED <<token, validTokens, nextTok, pathname, wrapped, isLoading, gate,
                   navPending, verifiedOk>>

-----------------------------------------------------------------------------
(* Data-access requests of a rendered page *)

\* The backend accepts the request's bearer token.
Authenticated(r) == \E t \in validTokens : r.auth = "Bearer " \o t

\* Mutant: the Wrapper renders WrappedComponent while it is loading.
ContentRequestWhileLoading(kind) ==
    /\ UNCHANGED dataVars
    /\ kind \in PageKinds(pathname)
    /\ HasRoom(inflight)
    /\ inflight' = Send(inflight, kind)
    /\ lastEvent' = Ev("request", TRUE, "")
    /\ UNCHANGED <<token, validTokens, nextTok, pathname, wrapped, isLoading, gate,
                   navPending, loginLoading, verifiedOk>>

\* The hooks of a page run when the Wrapper renders it.
ContentRequest(kind) ==
    /\ UNCHANGED dataVars
    /\ Rendered
    /\ kind \in PageKinds(pathname)
    /\ HasRoom(inflight)
    /\ inflight' = Send(inflight, kind)
    /\ lastEvent' = Ev("request", TRUE, "")
    /\ UNCHANGED <<token, validTokens, nextTok, pathname, wrapped, isLoading, gate,
                   navPending, loginLoading, verifiedOk>>

\* The QueryClient's retry option (app/providers.tsx): the client performs
\* no retries.
QueryRetry == FALSE

\* Mutant: a failed call is sent again.
HandleDataRetries(r, status) ==
    /\ UNCHANGED dataVars
    /\ r.kind \in DataKinds
    /\ status \in {IF Authenticated(r) THEN "ok" ELSE "unauth", "neterr"}
    /\ inflight' = IF status # "ok"
                   THEN Send(Release(inflight, r), r.kind)
                   ELSE Release(inflight, r)
    /\ lastEvent' = Ev(IF status = "ok" THEN "dataOk" ELSE "dataFail", r.mounted, status)
    /\ UNCHANGED <<token, validTokens, nextTok, pathname, wrapped, isLoading, gate,
                   navPending, loginLoading, verifiedOk>>

\* The promise of a query or mutation function settles, with the backend's
\* answer (2xx only to a bearer token it still accepts) or a lost connection:
\* nothing in lib/api.ts or hooks/ touches the token store or the router on
\* either outcome, and nothing sends the request again.
HandleData(r, status) ==
    /\ UNCHANGED dataVars
    /\ r.kind \in DataKinds
    /\ status \in {IF Authenticated(r) THEN "ok" ELSE "unauth", "neterr"}
    /\ inflight' = IF status # "ok" /\ QueryRetry
                   THEN Send(Release(inflight, r), r.kind)
                   ELSE Release(inflight, r)
    /\ lastEvent' = Ev(IF status = "ok" THEN "dataOk" ELSE "dataFail", r.mounted, status)
    /\ UNCHANGED <<token, validTokens, nextTok, pathname, wrapped, isLoading, gate,
                   navPending, loginLoading, verifiedOk>>

-----------------------------------------------------------------------------
(* Backend and network *)

\* POST /token: the backend accepts the credentials and issues a fresh access
\* token, or rejects them.
BackendLogin(r) ==
    /\ UNCHANGED dataVars
    /\ r.kind = "login"
    /\ r.status = "sent"
    /\ \/ /\ nextTok <= MaxLogins
          /\ inflight' = Answer(inflight, r, "ok", TokStr(nextTok))
          /\ validTokens' = validTokens \cup {TokStr(nextTok)}
          /\ nextTok' = nextTok + 1
       \/ /\ inflight' = Answer(inflight, r, "unauth", "")
          /\ UNCHANGED <<validTokens, nextTok>>
    /\ UNCHANGED <<token, pathname, wrapped, isLoading, gate, navPending,
                   loginLoading, verifiedOk, lastEvent>>

\* GET /users/me/ answers 2xx only to a bearer token the backend still
\* accepts, and 401 otherwise.
BackendReply(r) ==
    /\ UNCHANGED dataVars
    /\ r.kind = "me"
    /\ r.status = "sent"
    /\ inflight' = Answer(inflight, r, IF Authenticated(r) THEN "ok" ELSE "unauth", "")
    /\ verifiedOk' = (verifiedOk \/ (r.mounted /\ Authenticated(r)))
    /\ UNCHANGED <<token, validTokens, nextTok, pathname, wrapped, isLoading, gate,
                   navPending, loginLoading, lastEvent>>

\* The backend stops accepting a token (expiry).
ExpireToken(t) ==
    /\ UNCHANGED dataVars
    /\ t \in validTokens
    /\ validTokens' = validTokens \ {t}
    /\ UNCHANGED <<token, nextTok, pathname, wrapped, isLoading, gate, navPending,
                   inflight, loginLoading, verifiedOk,
                   lastEvent>>

-----------------------------------------------------------------------------

Next ==
    \/ \E r \in Routes : UserNavigate(r)
    \/ CommitNav
    \/ Logout
    \/ RunEffect
    \/ \E r \in Pending : HandleMeOk(r)
    \/ \E r \in Pending : HandleMeFail(r)
    \/ \E u \in Usernames, p \in Passwords : LoginSubmit(u, p)
    \/ \E r \in Pending : HandleLoginOk(r)
    \/ \E r \in Pending : HandleLoginFail(r)
    \/ \E k \in DataKinds : ContentRequest(k)
    \/ \E r \in Pending, st \in {"ok", "unauth", "neterr"} : HandleData(r, st)
    \/ \E r \in Pending : BackendLogin(r)
    \/ \E r \in Pending : BackendReply(r)
    \/ \E t \in validTokens : ExpireToken(t)

Spec == Init /\ [][Next]_vars

\* The same program while the user stays on the view he is shown: no
\* sidebar navigation and no logout, so a mount ends only by a redirect of
\* the program's own.
StayNext ==
    \/ CommitNav
    \/ RunEffect
    \/ \E r \in Pending : HandleMeOk(r)
    \/ \E r \in Pending : HandleMeFail(r)
    \/ \E u \in Usernames, p \in Passwords : LoginSubmit(u, p)
    \/ \E r \in Pending : HandleLoginOk(r)
    \/ \E r \in Pending : HandleLoginFail(r)
    \/ \E k \in DataKinds : ContentRequest(k)
    \/ \E r \in Pending, st \in {"ok", "unauth", "neterr"} : HandleData(r, st)
    \/ \E r \in Pending : BackendLogin(r)
    \/ \E r \in Pending : BackendReply(r)
    \/ \E t \in validTokens : ExpireToken(t)

\* React runs a mounted component's effect; the backend answers each
\* /users/me/ call or the call fails; the continuation of an awaited call
\* that has settled runs.
Scheduling ==
    /\ WF_vars(RunEffect)
    /\ WF_vars(\E r \in Pending : BackendReply(r))
    /\ WF_vars(\E r \in Pending : HandleMeOk(r) \/ HandleMeFail(r))

SpecStay == Init /\ [][StayNext]_vars /\ Scheduling

-----------------------------------------------------------------------------
(* Auth Gate, token lifecycle and interceptor properties *)

Redirecting == wrapped /\ gate = "Redirecting"

\* C1: a Wrapper shows the wrapped content only on the login route, or after
\* the backend answered this mount's /users/me/ call (sent with a token it
\* accepts) with success; in every other state it shows the loading indicator.
C1_ContentOnlyIfVerified ==
    (wrapped /\ ~isLoading) =>
        \/ pathname = LoginRoute /\ gate = "Skipped"
        \/ pathname # LoginRoute /\ gate = "Authorized" /\ verifiedOk

C1_Witness ==
    wrapped /\ ~isLoading /\ pathname # LoginRoute /\ verifiedOk /\ lastEvent.type = "meOk"

\* C2: when the /users/me/ call of a gate fails (401 or lost connection), the
\* handler leaves the token store empty and a redirect to /login issued, and
\* the mount that made the call still shows the loading indicator.
C2_FailedVerificationClearsAndRedirects ==
    lastEvent.type = "meFail" =>
        /\ token = NoToken
        /\ navPending = LoginRoute
        /\ lastEvent.cur => (Redirecting /\ isLoading /\ pathname # LoginRoute)

C2_Witness ==
    lastEvent.type = "meFail" /\ lastEvent.cur /\ lastEvent.status = "unauth" /\ Redirecting

\* C3: on a protected route with no stored token the effect goes straight to
\* Redirecting with a push to /login and no request of this mount in flight;
\* a redirecting mount shows the loading indicator and has nothing in flight.
C3_NoTokenRedirectsWithoutCall ==
    /\ (lastEvent.type = "effect" /\ pathname # LoginRoute /\ token = NoToken) =>
          /\ Redirecting
          /\ navPending = LoginRoute
          /\ \A r \in Pending : ~r.mounted
    /\ Redirecting => (isLoading /\ \A r \in Pending : ~r.mounted)

C3_Witness ==
    lastEvent.type = "effect" /\ pathname # LoginRoute /\ token = NoToken /\ Redirecting

\* A request this step handed to axios.
Sent(r) == r.mounted /\ r.status = "sent" /\ CopiesIn(r, inflight') > CopiesIn(r, inflight)

\* C4: every request handed to the axios instance carries "Bearer <token>"
\* with the token the store holds when it is sent, and no Authorization
\* header when the store is empty.
C4_EveryRequestCarriesStoredToken ==
    [][\A r \in BagToSet(inflight') :
          Sent(r) => r.auth = (IF token # NoToken THEN "Bearer " \o token ELSE NoHeader)]_vars

C4_Witness ==
    /\ token # NoToken
    /\ \E r \in Pending : r.kind = "data" /\ r.mounted /\ r.auth = "Bearer " \o token
    /\ \E r \in Pending : r.kind = "me" /\ ~r.mounted /\ r.auth = "Bearer " \o token

\* C5 as stated: logout, a failed verification and an expired-token answer to
\* any request each leave the token store empty.
C5_AnyExpiredResponseClears ==
    (\/ lastEvent.type \in {"logout", "meFail"}
     \/ lastEvent.type = "dataFail" /\ lastEvent.status = "unauth") => token = NoToken

\* C5 (amended): logout and a failed Auth Gate verification (the /users/me/
\* call failing for any reason, an expired token included) each leave the
\* token store empty.
C5_LogoutOrFailedVerificationClears ==
    lastEvent.type \in {"logout", "meFail"} => token = NoToken

C5_Witness ==
    lastEvent.type = "logout" /\ token = NoToken /\ \E r \in Pending : r.auth # NoHeader

\* The handler of r ran in this step.
Handled(r) == inflight' = Release(inflight, r)

\* C6: the token store gets a token only from a successful login, which saves
\* the access token the backend returned and pushes "/"; a failed login leaves
\* the token store and the pending navigation as they were.
C6_CredentialOnlyFromLogin ==
    [][/\ (token' # token /\ token' # NoToken) =>
             \E r \in Pending : r.kind = "login" /\ r.status = "ok" /\ Handled(r)
       /\ \A r \in Pending : (r.kind = "login" /\ Handled(r)) =>
             IF lastEvent'.type = "loginOk"
             THEN token' = r.data /\ navPending' = "/"
             ELSE token' = token /\ navPending' = navPending]_vars

C6_Witness ==
    lastEvent.type = "loginOk" /\ token = TokStr(1) /\ navPending = "/"

\* The Wrapper's effect runs in this step.
EffectRuns == wrapped /\ gate = "Unverified" /\ lastEvent'.type = "effect"

\* C16: on the login route the Auth Gate skips verification: its effect
\* sends no request, leaves the token store and the router alone and stops
\* loading, with or without a stored token; the skipped gate shows the
\* wrapped content.
C16_LoginRouteSkipsVerification ==
    [][/\ (EffectRuns /\ pathname = LoginRoute) =>
              /\ inflight' = inflight
              /\ token' = token
              /\ navPending' = navPending
              /\ pathname' = LoginRoute
              /\ ~isLoading'
              /\ gate' = "Skipped"
       /\ gate' = "Skipped" =>
              /\ pathname' = LoginRoute
              /\ wrapped' /\ ~isLoading'
              /\ \A r \in BagToSet(inflight') : r.kind = "me" => ~r.mounted]_vars

\* A gate on the login route rendered with a token stored and nothing sent.
C16_Witness ==
    /\ gate = "Skipped"
    /\ lastEvent.type = "effect"
    /\ token # NoToken
    /\ Rendered
    /\ navPending = ""
    /\ inflight = EmptyBag

\* C17: a route change mounts the new route's Wrapper Unverified and
\* loading, whatever the old one had decided, with no answer of an earlier
\* call left for it; its effect looks the token up again and, with a token
\* stored, sends one new current-user call; the Wrapper becomes Authorized
\* only by the answer to a call of its own.
C17_EveryMountVerifiesAgain ==
    [][/\ (pathname' # pathname /\ wrapped') =>
              /\ gate' = "Unverified"
              /\ isLoading'
              /\ ~verifiedOk'
              /\ \A r \in BagToSet(inflight') : ~r.mounted
       /\ (EffectRuns /\ pathname # LoginRoute) =>
              IF getToken = NoToken
              THEN gate' = "Redirecting" /\ inflight' = inflight
              ELSE /\ gate' = "Verifying"
                   /\ isLoading'
                   /\ inflight' = Send(inflight, "me")
                   /\ BagCardinality(inflight') = BagCardinality(inflight) + 1
       /\ (gate' = "Authorized" /\ gate # "Authorized") =>
              /\ gate = "Verifying"
              /\ \E r \in Pending :
                     r.kind = "me" /\ r.mounted /\ r.status = "ok"]_vars

\* A call's failure was handled in this step.
FailureHandled ==
    /\ lastEvent'.type \in {"dataFail", "loginFail", "meFail"}
    /\ \/ lastEvent' # lastEvent
       \/ BagCardinality(inflight') < BagCardinality(inflight)

C17_Witness ==
    /\ lastEvent.type = "mount"
    /\ wrapped /\ gate = "Unverified" /\ isLoading
    /\ pathname # LoginRoute
    /\ token # NoToken
    /\ \E r \in Pending : r.kind \in DataKinds /\ ~r.mounted


-----------------------------------------------------------------------------
(* Symbol reconciliation: IngestionPage.handleAddSymbol and                *)
(* handleBulkUpload.  Both concatenate the cached ingestion list with the  *)
(* incoming symbols, build a JavaScript Map keyed by the template string   *)
(* `${item.symbol}-${item.exchange}` and submit the Map's values.          *)

MaxList == 1
MaxBatch == 2

Symbols == {"A", "A-B"}
Exchanges == {"C", "B-C"}
Descriptions == {"d1", "d2"}

\* IngestedSymbol / SymbolUpdate (securityType plays no part in the merge).
Items == [symbol : Symbols, exchange : Exchanges, description : Descriptions]

SeqsUpTo(S, n) == UNION {[1..k -> S] : k \in 0..n}

\* The page behind a passed Auth Gate, nothing in flight.
SignedIn(route) ==
    /\ token = StoredToken
    /\ validTokens = {StoredToken}
    /\ nextTok = 1
    /\ pathname = route
    /\ wrapped = TRUE
    /\ isLoading = FALSE
    /\ gate = "Authorized"
    /\ navPending = ""
    /\ inflight = EmptyBag
    /\ loginLoading = FALSE
    /\ verifiedOk = TRUE
    /\ lastEvent = Ev("init", TRUE, "")

\* `${item.symbol}-${item.exchange}`
Key(item) == item.symbol \o "-" \o item.exchange

\* The pair the composite key stands for.
Pair(item) == <<item.symbol, item.exchange>>

\* A JavaScript Map as the sequence of its <<key, value>> entries in
\* insertion order.  Map.set on a present key replaces the value and keeps
\* the entry's position; on an absent key it appends.
MapHas(m, k) == \E i \in 1..Len(m) : m[i][1] = k

\* A Map.set that appends whether or not the key is present.
MapSetAlwaysAppends(m, k, v) == Append(m, <<k, v>>)

MapSet(m, k, v) ==
    IF MapHas(m, k)
    THEN [i \in 1..Len(m) |-> IF m[i][1] = k THEN <<k, v>> ELSE m[i]]
    ELSE Append(m, <<k, v>>)

\* new Map(entries): the entries are set one by one, first to last.
RECURSIVE NewMap(_)
NewMap(entries) ==
    IF entries = <<>>
    THEN <<>>
    ELSE LET n == Len(entries)
         IN MapSet(NewMap(SubSeq(entries, 1, n - 1)),
                   entries[n][1], entries[n][2])

\* Array.from(map.values())
MapValues(m) == [i \in 1..Len(m) |-> m[i][2]]

\* A merge that submits the concatenation as it stands.
ReconcileKeepsAll(currentSymbols, symbols) == currentSymbols \o symbols

\* The body shared by handleBulkUpload and handleAddSymbol.
Reconcile(currentSymbols, symbols) ==
    LET newSymbols == currentSymbols \o symbols
        uniqueSymbolsMap ==
            NewMap([i \in 1..Len(newSymbols) |->
                        <<Key(newSymbols[i]), newSymbols[i]>>])
    IN MapValues(uniqueSymbolsMap)

\* handleSetSymbols: the list goes to setSymbolsMutation.
HandleSetSymbols(symbols) ==
    /\ submitted' = symbols
    /\ mergePhase' = "submitted"

\* BulkUploadModal calls onUpload only with a non-empty batch.
HandleBulkUpload ==
    /\ mergePhase = "idle"
    /\ batch # <<>>
    /\ HandleSetSymbols(Reconcile(ingestedSymbols, batch))
    /\ UNCHANGED <<outsideMerge, ingestedSymbols, batch, textInput, formEvent>>

\* AddSymbolModal hands over one symbol.
HandleAddSymbol ==
    /\ mergePhase = "idle"
    /\ Len(batch) = 1
    /\ HandleSetSymbols(Reconcile(ingestedSymbols, <<batch[1]>>))
    /\ UNCHANGED <<outsideMerge, ingestedSymbols, batch, textInput, formEvent>>

\* The mutation succeeded, ['ingestedSymbols'] was invalidated and the
\* refetch brought back the list the backend stored.
RefetchIngested ==
    /\ mergePhase = "submitted"
    /\ ingestedSymbols' = submitted
    /\ mergePhase' = "idle"
    /\ UNCHANGED <<outsideMerge, batch, submitted, textInput, formEvent>>

MergeInit ==
    /\ SignedIn("/ingestion")
    /\ SearchIdle
    /\ StoreIdle
    /\ DraftIdle
    /\ CacheIdle
    /\ ingestedSymbols \in SeqsUpTo(Items, MaxList)
    /\ batch \in SeqsUpTo(Items, MaxBatch) \ {<<>>}
    /\ submitted = <<>>
    /\ mergePhase = "idle"
    /\ textInput = <<>>
    /\ formEvent = NoFormEvent

MergeNext ==
    \/ HandleBulkUpload
    \/ HandleAddSymbol
    \/ RefetchIngested

SpecMerge == MergeInit /\ [][MergeNext]_vars

-----------------------------------------------------------------------------
(* Reconciliation properties *)

\* The concatenation the merge that just ran worked on.
Concatenation == ingestedSymbols \o batch

EntriesFor(list, pair) == {n \in 1..Len(list) : Pair(list[n]) = pair}

\* C9: after a client-side merge (manual add or bulk upload) the submitted
\* list holds at most one entry per (symbol, exchange) pair.
C9_SubmittedHasUniqueKeys ==
    mergePhase = "submitted" =>
        \A i, j \in 1..Len(submitted) :
            Pair(submitted[i]) = Pair(submitted[j]) => i = j

\* A merge dropped a repeated pair and still submitted two entries.
C9_Witness ==
    /\ mergePhase = "submitted"
    /\ Len(submitted) = 2
    /\ Len(submitted) < Len(Concatenation)

\* C10: when a (symbol, exchange) pair occurs more than once in the
\* concatenation of the current list and the batch, the submitted list holds
\* exactly one entry for that pair and it is the pair's last occurrence.
C10_LastOccurrenceWins ==
    mergePhase = "submitted" =>
        \A i \in 1..Len(Concatenation) :
            LET occ == EntriesFor(Concatenation, Pair(Concatenation[i]))
                last == CHOOSE n \in occ : \A o \in occ : o <= n
                kept == EntriesFor(submitted, Pair(Concatenation[i]))
            IN Cardinality(occ) > 1 =>
                   /\ Cardinality(kept) = 1
                   /\ \A n \in kept : submitted[n] = Concatenation[last]

Entries(list) == {list[n] : n \in 1..Len(list)}

\* C11: reconciliation is idempotent.  When the list a merge produced has
\* come back as the current list and the same batch is merged into it
\* again, the second merge submits the same set of entries: no key twice,
\* no growth.
C11_MergingAgainChangesNothing ==
    [][(mergePhase = "idle" /\ submitted # <<>> /\ mergePhase' = "submitted") =>
           /\ ingestedSymbols = submitted
           /\ Entries(submitted') = Entries(submitted)
           /\ Len(submitted') = Len(submitted)
           /\ \A i, j \in 1..Len(submitted') :
                  Pair(submitted'[i]) = Pair(submitted'[j]) => i = j]_vars

\* The second merge has run on a list longer than any initial one.
C11_Witness ==
    /\ mergePhase = "submitted"
    /\ ingestedSymbols = submitted
    /\ Len(ingestedSymbols) > MaxList
    /\ Len(batch) = 2

-----------------------------------------------------------------------------
(* Bulk upload: BulkUploadModal.parseSymbols and handleSubmit.  A text is  *)
(* a sequence of one-character strings, so that trim, split and            *)
(* toUpperCase work on characters as the JavaScript methods do.            *)

MaxUpload == 5

Chars == {"a", "B", ",", " ", "\n"}

\* The bulk-upload example of the specification:
\* "AAPL,NASDAQ\nbadline\nMSFT, NASDAQ \n"
ExampleText ==
    <<"A", "A", "P", "L", ",", "N", "A", "S", "D", "A", "Q", "\n",
      "b", "a", "d", "l", "i", "n", "e", "\n",
      "M", "S", "F", "T", ",", " ", "N", "A", "S", "D", "A", "Q", " ", "\n">>

\* Two records from lowercase input with a third column, and a line whose
\* second field is empty: "ab,B,a\nB,,a\nb, a"
ColumnsText ==
    <<"a", "b", ",", "B", ",", "a", "\n",
      "B", ",", ",", "a", "\n",
      "b", ",", " ", "a">>

UploadTexts == SeqsUpTo(Chars, MaxUpload) \cup {ExampleText, ColumnsText}

\* String.prototype.trim removes white space and line terminators.
WhiteSpace == {" ", "\n", "\t", "\r"}

RECURSIVE TrimStart(_)
TrimStart(s) ==
    IF s # <<>> /\ Head(s) \in WhiteSpace THEN TrimStart(Tail(s)) ELSE s

RECURSIVE TrimEnd(_)
TrimEnd(s) ==
    IF s # <<>> /\ s[Len(s)] \in WhiteSpace
    THEN TrimEnd(SubSeq(s, 1, Len(s) - 1))
    ELSE s

Trim(s) == TrimEnd(TrimStart(s))

\* String.prototype.split(sep): the pieces between all the separators; a
\* text without the separator is its only piece.
RECURSIVE Split(_, _)
Split(s, sep) ==
    IF \A i \in 1..Len(s) : s[i] # sep
    THEN <<s>>
    ELSE LET i == CHOOSE k \in 1..Len(s) :
                      s[k] = sep /\ \A j \in 1..(k - 1) : s[j] # sep
         IN <<SubSeq(s, 1, i - 1)>> \o Split(SubSeq(s, i + 1, Len(s)), sep)

LowerLetters ==
    <<"a", "b", "c", "d", "e", "f", "g", "h", "i", "j", "k", "l", "m",
      "n", "o", "p", "q", "r", "s", "t", "u", "v", "w", "x", "y", "z">>

UpperLetters ==
    <<"A", "B", "C", "D", "E", "F", "G", "H", "I", "J", "K", "L", "M",
      "N", "O", "P", "Q", "R", "S", "T", "U", "V", "W", "X", "Y", "Z">>

\* String.prototype.toUpperCase
ToUpperCase(s) ==
    [i \in 1..Len(s) |->
        IF \E n \in 1..Len(LowerLetters) : LowerLetters[n] = s[i]
        THEN UpperLetters[CHOOSE n \in 1..Len(LowerLetters) :
                              LowerLetters[n] = s[i]]
        ELSE s[i]]

\* The characters as one string value.
RECURSIVE Str(_)
Str(s) == IF s = <<>> THEN "" ELSE Head(s) \o Str(Tail(s))

\* The body of lines.forEach without toUpperCase.
ParseLineKeepsCase(line) ==
    LET split == Split(line, ",")
        parts == [i \in 1..Len(split) |-> Trim(split[i])]
        symbol == parts[1]
        exchangeCode == IF Len(parts) >= 2 THEN parts[2] ELSE <<>>
    IN IF symbol # <<>> /\ exchangeCode # <<>>
       THEN <<[symbol |-> Str(symbol), exchange |-> Str(exchangeCode)]>>
       ELSE <<>>

\* The body of lines.forEach, with exchange taken to the end of the line.
ParseLineFirstComma(line) ==
    LET parts == Split(line, ",")
        symbol == Trim(parts[1])
        rest == SubSeq(line, Len(parts[1]) + 2, Len(line))
        exchangeCode == IF Len(parts) >= 2 THEN Trim(rest) ELSE <<>>
    IN IF symbol # <<>> /\ exchangeCode # <<>>
       THEN <<[symbol |-> Str(ToUpperCase(symbol)), exchange |-> Str(exchangeCode)]>>
       ELSE <<>>

\* The body of lines.forEach: const [symbol, exchange] =
\* line.split(',').map(s => s.trim()); a missing second part is undefined.
ParseLine(line) ==
    LET split == Split(line, ",")
        parts == [i \in 1..Len(split) |-> Trim(split[i])]
        symbol == parts[1]
        exchangeCode == IF Len(parts) >= 2 THEN parts[2] ELSE <<>>
    IN IF symbol # <<>> /\ exchangeCode # <<>>
       THEN <<[symbol |-> Str(ToUpperCase(symbol)), exchange |-> Str(exchangeCode)]>>
       ELSE <<>>

RECURSIVE PushAll(_)
PushAll(lines) ==
    IF lines = <<>> THEN <<>> ELSE ParseLine(Head(lines)) \o PushAll(Tail(lines))

parseSymbols(text) == PushAll(Split(Trim(text), "\n"))

\* BulkUploadModal.handleSubmit: a non-empty parse goes to onUpload, which
\* is IngestionPage.handleBulkUpload, and the modal's text is cleared; an
\* empty parse does nothing.
BulkUploadSubmit ==
    LET symbols == parseSymbols(textInput)
    IN /\ mergePhase = "idle"
       /\ IF Len(symbols) > 0
          THEN /\ batch' = symbols
               /\ HandleSetSymbols(Reconcile(ingestedSymbols, symbols))
               /\ textInput' = <<>>
          ELSE /\ mergePhase' = "rejected"
               /\ UNCHANGED <<batch, submitted, textInput>>
       /\ formEvent' = FormEvent("bulk", <<>>, <<>>)
       /\ UNCHANGED <<outsideMerge, ingestedSymbols>>

\* The modal is opened again for the next text.
BulkUploadReopen ==
    /\ mergePhase # "idle"
    /\ mergePhase' = "idle"
    /\ UNCHANGED <<outsideMerge, ingestedSymbols, batch, submitted, textInput,
                   formEvent>>

ParseInit ==
    /\ SignedIn("/ingestion")
    /\ SearchIdle
    /\ StoreIdle
    /\ DraftIdle
    /\ CacheIdle
    /\ ingestedSymbols = <<>>
    /\ batch = <<>>
    /\ submitted = <<>>
    /\ mergePhase = "idle"
    /\ textInput \in UploadTexts
    /\ formEvent = NoFormEvent

ParseNext ==
    \/ BulkUploadSubmit
    \/ BulkUploadReopen

SpecParse == ParseInit /\ [][ParseNext]_vars

-----------------------------------------------------------------------------
(* The forms that validate before they submit: BulkUploadModal,            *)
(* AddSymbolModal (components/AddSymbolModal.tsx) and LoginPage.           *)

AddSymbolFields == {<<>>, <<"a">>, <<"B">>}
AddExchangeFields == {<<>>, <<"B">>}

\* Mutant: the modal hands over whatever the fields hold.
AddSymbolSubmitsAnything(symbol, exchangeCode) ==
    /\ mergePhase = "idle"
    /\ batch' = <<[symbol |-> Str(ToUpperCase(symbol)),
                   exchange |-> Str(exchangeCode)]>>
    /\ HandleSetSymbols(Reconcile(ingestedSymbols, batch'))
    /\ formEvent' = FormEvent("add", symbol, exchangeCode)
    /\ UNCHANGED <<outsideMerge, ingestedSymbols, textInput>>

\* AddSymbolModal.handleSubmit with IngestionPage.handleAddSymbol.
AddSymbolSubmit(symbol, exchangeCode) ==
    /\ mergePhase = "idle"
    /\ IF symbol # <<>> /\ exchangeCode # <<>>
       THEN /\ batch' = <<[symbol |-> Str(ToUpperCase(symbol)),
                          exchange |-> Str(exchangeCode)]>>
            /\ HandleSetSymbols(Reconcile(ingestedSymbols, batch'))
       ELSE /\ mergePhase' = "rejected"
            /\ UNCHANGED <<batch, submitted>>
    /\ formEvent' = FormEvent("add", symbol, exchangeCode)
    /\ UNCHANGED <<outsideMerge, ingestedSymbols, textInput>>

FormTexts == SeqsUpTo(Chars, MaxUpload - 2) \cup {ExampleText}

\* The cached ingestion list when the modals open.
FormLists ==
    {<<>>, <<[symbol |-> "B", exchange |-> "B", description |-> "d1"]>>}

\* A page load of the login page, or the ingestion page with text in the
\* bulk-upload modal.
FormsInit ==
    /\ SearchIdle
    /\ StoreIdle
    /\ DraftIdle
    /\ CacheIdle
    /\ batch = <<>>
    /\ submitted = <<>>
    /\ mergePhase = "idle"
    /\ formEvent = NoFormEvent
    /\ \/ /\ token \in {NoToken, StoredToken}
          /\ validTokens = {}
          /\ nextTok = 1
          /\ pathname = LoginRoute
          /\ wrapped = FALSE
          /\ isLoading = FALSE
          /\ gate = "None"
          /\ navPending = ""
          /\ inflight = EmptyBag
          /\ loginLoading = FALSE
          /\ verifiedOk = FALSE
          /\ lastEvent = Ev("init", TRUE, "")
          /\ ingestedSymbols = <<>>
          /\ textInput = <<>>
       \/ /\ SignedIn("/ingestion")
          /\ ingestedSymbols \in FormLists
          /\ textInput \in FormTexts

FormsNext ==
    \/ \E u \in Usernames, p \in Passwords : LoginSubmit(u, p)
    \/ \E r \in Pending : BackendLogin(r)
    \/ \E r \in Pending : HandleLoginOk(r)
    \/ \E r \in Pending : HandleLoginFail(r)
    \/ pathname = "/ingestion" /\ BulkUploadSubmit
    \/ pathname = "/ingestion" /\ BulkUploadReopen
    \/ \E symbol \in AddSymbolFields, exchangeCode \in AddExchangeFields :
           pathname = "/ingestion" /\ AddSymbolSubmit(symbol, exchangeCode)

SpecForms == FormsInit /\ [][FormsNext]_vars

-----------------------------------------------------------------------------
(* Bulk-upload parsing properties.  The expected records are read off the  *)
(* raw text by position: a line runs between two line breaks, its first    *)
(* field ends at its first comma, its second field at its second comma or  *)
(* at the end of the line.                                                 *)

Breaks(text) ==
    {0, Len(text) + 1} \cup {i \in 1..Len(text) : text[i] = "\n"}

NthBreak(text, k) ==
    CHOOSE b \in Breaks(text) :
        Cardinality({x \in Breaks(text) : x < b}) = k - 1

RawLines(text) ==
    [k \in 1..(Cardinality(Breaks(text)) - 1) |->
        SubSeq(text, NthBreak(text, k) + 1, NthBreak(text, k + 1) - 1)]

\* s without the white space around it.
Strip(s) ==
    LET ink == {i \in 1..Len(s) : s[i] \notin WhiteSpace}
    IN IF ink = {}
       THEN <<>>
       ELSE SubSeq(s, CHOOSE i \in ink : \A j \in ink : i <= j,
                      CHOOSE i \in ink : \A j \in ink : j <= i)

Commas(line) == {i \in 1..Len(line) : line[i] = ","}

FirstComma(line) == CHOOSE i \in Commas(line) : \A j \in Commas(line) : i <= j

SecondComma(line) ==
    LET later == Commas(line) \ {FirstComma(line)}
    IN IF later = {}
       THEN Len(line) + 1
       ELSE CHOOSE i \in later : \A j \in later : i <= j

FirstField(line) == Strip(SubSeq(line, 1, FirstComma(line) - 1))

SecondField(line) ==
    Strip(SubSeq(line, FirstComma(line) + 1, SecondComma(line) - 1))

AfterFirstComma(line) ==
    Strip(SubSeq(line, FirstComma(line) + 1, Len(line)))

\* The line has both fields.
WellFormed(line) ==
    /\ Commas(line) # {}
    /\ FirstField(line) # <<>>
    /\ SecondField(line) # <<>>

NoLowerCase(string, chars) ==
    /\ string = Str(ToUpperCase(chars))
    /\ \A i \in 1..Len(ToUpperCase(chars)) :
           \A n \in 1..Len(LowerLetters) : ToUpperCase(chars)[i] # LowerLetters[n]

ExpectedRecord(line) ==
    [symbol |-> Str(ToUpperCase(FirstField(line))),
     exchange |-> Str(SecondField(line))]

ExpectedRecords(text) ==
    LET good == SelectSeq(RawLines(text), WellFormed)
    IN [k \in 1..Len(good) |-> ExpectedRecord(good[k])]

\* handleSubmit ran in this step.
Submitting == mergePhase = "idle" /\ mergePhase' # "idle"

\* C12: the parse returns, in input order, one record for each line that
\* has both fields non-empty, trimmed and with the symbol upper-cased, and
\* drops every other line without an error; a text without such a line is
\* not submitted.
C12_ParseKeepsWellFormedLinesInOrder ==
    [][Submitting =>
           LET expected == ExpectedRecords(textInput)
               good == SelectSeq(RawLines(textInput), WellFormed)
           IN /\ IF expected = <<>>
                 THEN mergePhase' = "rejected" /\ batch' = batch
                 ELSE mergePhase' = "submitted" /\ batch' = expected
              /\ \A k \in 1..Len(good) :
                     NoLowerCase(expected[k].symbol, FirstField(good[k]))]_vars

\* The example of the specification has been parsed.
C12_Witness ==
    /\ mergePhase = "submitted"
    /\ batch = <<[symbol |-> "AAPL", exchange |-> "NASDAQ"],
                 [symbol |-> "MSFT", exchange |-> "NASDAQ"]>>
    /\ submitted = batch

\* The lines of the text that have a comma.
CommaLines(text) ==
    {k \in 1..Len(RawLines(text)) : Commas(RawLines(text)[k]) # {}}

\* C13 as claimed: a line is split on its first comma only; the exchange is
\* the trimmed text of everything after it.
C13_ExchangeIsAllAfterFirstComma ==
    [][Submitting =>
           \A k \in CommaLines(textInput) :
               LET line == RawLines(textInput)[k]
               IN (FirstField(line) # <<>> /\ AfterFirstComma(line) # <<>>) =>
                      \E n \in 1..Len(batch') :
                          /\ mergePhase' = "submitted"
                          /\ batch'[n].symbol = Str(ToUpperCase(FirstField(line)))
                          /\ batch'[n].exchange = Str(AfterFirstComma(line))]_vars

\* C13 (amended): a line is split on every comma; the symbol is the trimmed
\* text before the first comma, the exchange the trimmed text between the
\* first and the second comma (or the end of the line), and what follows a
\* second comma is ignored.  A line yields a record exactly when both are
\* non-empty.
C13_ExchangeIsSecondField ==
    [][Submitting =>
           /\ \A k \in CommaLines(textInput) :
                  LET line == RawLines(textInput)[k]
                  IN WellFormed(line) =>
                         \E n \in 1..Len(batch') :
                             /\ mergePhase' = "submitted"
                             /\ batch'[n] = ExpectedRecord(line)
           /\ mergePhase' = "submitted" =>
                  \A n \in 1..Len(batch') :
                      \E k \in CommaLines(textInput) :
                          /\ WellFormed(RawLines(textInput)[k])
                          /\ batch'[n] = ExpectedRecord(RawLines(textInput)[k])]_vars

\* A text with a third column and with an empty second field was parsed:
\* "ab,B,a\nB,,a\nb, a" gave (AB, B) and (B, a).
C13_Witness ==
    /\ mergePhase = "submitted"
    /\ batch = <<[symbol |-> "AB", exchange |-> "B"],
                 [symbol |-> "B", exchange |-> "a"]>>

-----------------------------------------------------------------------------
(* Validation *)

\* Nothing is sent to the backend in this step, and the token store and the
\* cached ingestion list stay as they are.
NothingSent ==
    /\ inflight' = inflight
    /\ symbolCalls' = symbolCalls
    /\ configCalls' = configCalls
    /\ submitted' = submitted
    /\ mergePhase' # "submitted"
    /\ token' = token
    /\ ingestedSymbols' = ingestedSymbols
    /\ queryCache' = queryCache

\* C19: a bulk upload whose text has no well-formed line, a manual add with
\* an empty symbol or exchange, and a login with an empty username or
\* password send nothing to the backend and leave the stored token and the
\* cached ingestion list unchanged.
C19_ValidationFailuresSendNothing ==
    [][/\ (Submitting /\ formEvent'.form = "bulk"
              /\ ExpectedRecords(textInput) = <<>>) => NothingSent
       /\ (Submitting /\ formEvent'.form = "add"
              /\ (formEvent'.symbol = <<>> \/ formEvent'.exchange = <<>>)) =>
              NothingSent
       /\ (lastEvent' # lastEvent
              /\ lastEvent'.type \in {"loginInvalid", "loginSubmit"}
              /\ lastEvent'.status = "empty") => NothingSent]_vars

\* A bulk upload of a text with a comma but no well-formed line was turned
\* down after an add had been submitted.
C19_Witness ==
    /\ mergePhase = "rejected"
    /\ formEvent.form = "bulk"
    /\ Commas(textInput) # {}
    /\ ExpectedRecords(textInput) = <<>>
    /\ submitted # <<>>
    /\ token = StoredToken

-----------------------------------------------------------------------------
(* Symbol search: DiscoveryPage.  The input's text goes through            *)
(* useDebounce(searchString, 500); the query useSearchSymbols is keyed by  *)
(* the debounced text and the two filters and is enabled while the         *)
(* debounced text is longer than two characters.  Time is counted in       *)
(* steps of half the debounce delay.                                       *)

MaxText == 4
MaxSearches == 2

DebounceMs == 500

\* The texts the input can hold: "", "A", "AA", ...
RECURSIVE Texts(_)
Texts(n) == IF n = 0 THEN {""} ELSE {t \o "A" : t \in Texts(n - 1)} \cup {""}

\* Two of the options each Select offers; "" is "All".
ExchangeOptions == {"", "NASDAQ"}
SecurityTypeOptions == {"", "STOCK"}

\* searchEnabled, with the threshold one character lower.
searchEnabledFromTwo(text) == Len(text) > 1

\* const searchEnabled = useMemo(() => debouncedSearchString.length > 2, ...)
searchEnabled(text) == Len(text) > 2

\* The params object handed to useSearchSymbols, which is the query key.
SearchParams(text, exch, secType) ==
    [search_string |-> text, exchange |-> exch, security_type |-> secType]

\* useQuery on a render: an enabled query whose key has no request in
\* flight fetches; a disabled query does nothing.
Observe(calls, params) ==
    IF searchEnabled(params.search_string)
    THEN calls \cup {params}
    ELSE calls

\* The bound on requests in flight.
SearchRoom(calls) == Cardinality(calls) <= MaxSearches

\* onValueChange={setSearchString}: the debounce timer restarts.
SetSearchString(text) ==
    /\ text # searchString
    /\ searchString' = text
    /\ pendingDebounce' = TRUE
    /\ sinceInput' = 0
    /\ UNCHANGED <<outsideSearch, debouncedSearchString, exchange,
                   securityType, searchCalls, quietMs>>
    /\ UNCHANGED searchCache

\* Half a debounce delay passes with no input.
Tick ==
    /\ pendingDebounce
    /\ sinceInput < DebounceMs
    /\ sinceInput' = sinceInput + DebounceMs \div 2
    /\ UNCHANGED <<outsideSearch, searchString, debouncedSearchString,
                   pendingDebounce, exchange, securityType, searchCalls,
                   quietMs>>
    /\ UNCHANGED searchCache

\* The debounce timer fires: the input's text becomes the debounced text
\* and the page renders with the new query key.
DebounceFire ==
    /\ pendingDebounce
    /\ sinceInput >= DebounceMs
    /\ debouncedSearchString' = searchString
    /\ pendingDebounce' = FALSE
    /\ quietMs' = sinceInput
    /\ searchCalls' =
           Observe(searchCalls, SearchParams(searchString, exchange, securityType))
    /\ SearchRoom(searchCalls')
    /\ UNCHANGED <<outsideSearch, searchString, sinceInput, exchange,
                   securityType>>
    /\ UNCHANGED searchCache

\* onChange of the Exchange select: not debounced.
SetExchange(exch) ==
    /\ exch # exchange
    /\ exchange' = exch
    /\ searchCalls' =
           Observe(searchCalls,
                   SearchParams(debouncedSearchString, exch, securityType))
    /\ SearchRoom(searchCalls')
    /\ UNCHANGED <<outsideSearch, searchString, debouncedSearchString,
                   pendingDebounce, sinceInput, securityType, quietMs>>
    /\ UNCHANGED searchCache

\* onChange of the Security Type select: not debounced.
SetSecurityType(secType) ==
    /\ secType # securityType
    /\ securityType' = secType
    /\ searchCalls' =
           Observe(searchCalls,
                   SearchParams(debouncedSearchString, exchange, secType))
    /\ SearchRoom(searchCalls')
    /\ UNCHANGED <<outsideSearch, searchString, debouncedSearchString,
                   pendingDebounce, sinceInput, exchange, quietMs>>
    /\ UNCHANGED searchCache

\* The query refetches its current key (window focus, reconnect).
RefetchSearch ==
    /\ searchCalls' =
           Observe(searchCalls,
                   SearchParams(debouncedSearchString, exchange, securityType))
    /\ searchCalls' # searchCalls
    /\ SearchRoom(searchCalls')
    /\ UNCHANGED <<outsideSearch, searchString, debouncedSearchString,
                   pendingDebounce, sinceInput, exchange, securityType,
                   quietMs>>
    /\ UNCHANGED searchCache

\* GET /search_symbols/ answers with the symbols matching the params.
SearchResult(params) ==
    params.search_string \o "/" \o params.exchange \o "/" \o params.security_type

\* The query key the page's useSearchSymbols observes.
ActiveKey == SearchParams(debouncedSearchString, exchange, securityType)

\* The entries with data put under key.
Stored(cache, key, data) ==
    {e \in cache : e.params # key} \cup {[params |-> key, data |-> data]}

\* Mutant: the answer is kept as the result of the key now active.
SearchResolvesIntoActiveKey(params) ==
    /\ searchCalls' = searchCalls \ {params}
    /\ searchCache' = Stored(searchCache, ActiveKey, SearchResult(params))
    /\ UNCHANGED <<outsideSearch, searchString, debouncedSearchString,
                   pendingDebounce, sinceInput, exchange, securityType,
                   quietMs>>

\* A search request resolves: its data goes into the cache under the key
\* it was issued for.
SearchResolves(params) ==
    /\ searchCalls' = searchCalls \ {params}
    /\ searchCache' = Stored(searchCache, params, SearchResult(params))
    /\ UNCHANGED <<outsideSearch, searchString, debouncedSearchString,
                   pendingDebounce, sinceInput, exchange, securityType,
                   quietMs>>

\* A search request fails (or its answer is not looked at again); nothing
\* aborts it before.
SearchSettles(params) ==
    /\ searchCalls' = searchCalls \ {params}
    /\ UNCHANGED searchCache
    /\ UNCHANGED <<outsideSearch, searchString, debouncedSearchString,
                   pendingDebounce, sinceInput, exchange, securityType,
                   quietMs>>

\* The page is left and mounted again: its state starts over, the timer is
\* cleared, the requests in flight stay in flight.
RemountDiscovery ==
    /\ searchString' = ""
    /\ debouncedSearchString' = ""
    /\ pendingDebounce' = FALSE
    /\ sinceInput' = 0
    /\ exchange' = ""
    /\ securityType' = ""
    /\ quietMs' = 0
    /\ UNCHANGED <<outsideSearch, searchCalls>>
    /\ UNCHANGED searchCache

SearchInit ==
    /\ SignedIn("/discovery")
    /\ MergeIdle
    /\ SearchIdle
    /\ StoreIdle
    /\ DraftIdle
    /\ CacheIdle

SearchNext ==
    \/ \E text \in Texts(MaxText) : SetSearchString(text)
    \/ Tick
    \/ DebounceFire
    \/ \E exch \in ExchangeOptions : SetExchange(exch)
    \/ \E secType \in SecurityTypeOptions : SetSecurityType(secType)
    \/ RefetchSearch
    \/ \E params \in searchCalls : SearchSettles(params)
    \/ RemountDiscovery

SpecSearch == SearchInit /\ [][SearchNext]_vars

\* The search with the results cache: an empty text, two texts long enough
\* to search for, and the exchange filter (the security-type filter works
\* the same way and stays at "All").
ResultTexts == {"", "AAA", "AAAA"}

ResultsNext ==
    \/ \E text \in ResultTexts : SetSearchString(text)
    \/ Tick
    \/ DebounceFire
    \/ \E exch \in ExchangeOptions : SetExchange(exch)
    \/ RefetchSearch
    \/ \E params \in searchCalls : SearchResolves(params)
    \/ \E params \in searchCalls : SearchSettles(params)
    \/ RemountDiscovery

SpecResults == SearchInit /\ [][ResultsNext]_vars

-----------------------------------------------------------------------------
(* Search activation gate *)

\* C8: no search request is issued for a text of at most two characters; a
\* request for a longer text is issued only once that text has stood in the
\* input for the 500 ms debounce delay with no further input.
C8_SearchOnlyAfterDebounceOfLongText ==
    [][\A params \in searchCalls' \ searchCalls :
           /\ Len(params.search_string) > 2
           /\ params.search_string = debouncedSearchString'
           /\ quietMs' >= DebounceMs]_vars

\* A two-character text went through the debounce and issued nothing, while
\* the request of the three-character text before it is still in flight.
C8_Witness ==
    /\ debouncedSearchString = "AA"
    /\ ~pendingDebounce
    /\ quietMs >= DebounceMs
    /\ searchCalls = {SearchParams("AAA", "", "")}

-----------------------------------------------------------------------------
(* Search results *)

\* const { data: symbols } = useSearchSymbols(...): the data cached under
\* the active key, shown by SymbolTable.
Displayed == {e.data : e \in {x \in searchCache : x.params = ActiveKey}}

\* C20: what is displayed is the data cached under the active query key
\* and is the answer to a request for that key; the answer to a request
\* issued under another key is stored under that key only; while the query
\* is not active nothing is displayed.
C20_DisplayedResultsBelongToActiveKey ==
    /\ \A e \in searchCache : e.data = SearchResult(e.params)
    /\ \A e, x \in searchCache : e.params = x.params => e = x
    /\ Displayed \subseteq {SearchResult(ActiveKey)}
    /\ ~searchEnabled(debouncedSearchString) => Displayed = {}

\* The answer for an earlier key arrived after the key had changed: it is
\* cached under its own key while the active key, whose request is still
\* in flight, displays nothing.
C20_Witness ==
    /\ searchEnabled(debouncedSearchString)
    /\ ActiveKey \in searchCalls
    /\ Displayed = {}
    /\ \E e \in searchCache :
           /\ e.params # ActiveKey
           /\ e.params.search_string # debouncedSearchString
           /\ e.params \notin searchCalls

-----------------------------------------------------------------------------
(* Data-access hooks and the query cache: hooks/useSymbols.ts and          *)
(* hooks/useConfig.ts.  Each read hook is a useQuery under a fixed key,    *)
(* each mutation hook a useMutation whose onSuccess calls                  *)
(* queryClient.invalidateQueries on one key.  invalidateQueries marks the  *)
(* entry invalidated and, if a mounted component reads the key, cancels    *)
(* the fetch in flight and fetches again; an entry nobody reads is only    *)
(* marked.  A component that mounts on a key whose fetch is in flight      *)
(* shares that fetch.  A request goes on after the component that caused   *)
(* it has unmounted.  A page change here stands for the navigation and     *)
(* the Auth Gate's successful check of the new page.                       *)

MaxCalls == 2

CachePages == {"/discovery", "/ingestion", "/settings"}

\* Two symbols with distinct composite keys.
CacheItems ==
    {[symbol |-> "A", exchange |-> "C", description |-> "d1"],
     [symbol |-> "A-B", exchange |-> "B-C", description |-> "d1"]}

Configs == {"c1", "c2"}

\* Lists without a repeated symbol.
Lists ==
    {l \in SeqsUpTo(CacheItems, Cardinality(CacheItems)) :
         \A i, j \in 1..Len(l) : l[i] = l[j] => i = j}

\* The key the page's component reads: IngestionPage uses
\* useIngestedSymbols, SettingsPage (SystemConfig) useSystemConfig.
ObservedKey(route) ==
    CASE route = "/ingestion" -> "ingestedSymbols"
      [] route = "/settings" -> "systemConfig"
      [] OTHER -> "none"

\* held (history): the backend's list when a replacement was submitted,
\* where submissions are recorded.
SymbolCall(kind, arg) ==
    [kind |-> kind, arg |-> arg, status |-> "sent", data |-> <<>>,
     held |-> <<>>]

ConfigCall(kind, arg) ==
    [kind |-> kind, arg |-> arg, status |-> "sent", data |-> ""]

GetIngestedSymbols == SymbolCall("getIngestedSymbols", <<>>)
GetSystemConfig == ConfigCall("getSystemConfig", "")

IsFetch(c) == c.kind \in {"getIngestedSymbols", "getSystemConfig"}

Fetches(calls) == {c \in BagToSet(calls) : IsFetch(c)}

\* The calls without the fetch in flight (a key has at most one).
WithoutFetch(calls) == calls (-) SetToBag(Fetches(calls))

CallsInFlight == BagCardinality(symbolCalls) + BagCardinality(configCalls)

CallRoom == CallsInFlight < MaxCalls

\* const currentSymbols = ingestedSymbols || []
CachedList ==
    IF queryCache.ingestedSymbols.has
    THEN queryCache.ingestedSymbols.data
    ELSE <<>>

\* The history of the last full replacement, kept while it is recorded.
\* "stored": the backend holds the list of a set_ingestion_symbols request
\* and has served no other change since; "succeeded": the client has run
\* the request's onSuccess; "reading": the client has sent an ingestion-list
\* request since; "read": that request's answer is in the cache.

\* The backend served c.
LogServed(c) ==
    IF replaceLog.phase \in {"off", "submissions"} \/ IsFetch(c)
    THEN replaceLog
    ELSE IF c.kind = "setSymbols"
         THEN ReplaceLog("stored", c.arg,
                         \E i \in 1..Len(backendSymbols) :
                             \A j \in 1..Len(c.arg) :
                                 Pair(backendSymbols[i]) # Pair(c.arg[j]))
         ELSE ReplaceLog("none", <<>>, FALSE)

\* The client ran the onSuccess of mutation c; refetch: it sent an
\* ingestion-list request.
LogSucceeded(c, refetch) ==
    LET phase ==
            IF /\ replaceLog.phase = "stored"
               /\ c.kind = "setSymbols"
               /\ c.arg = replaceLog.list
            THEN "succeeded"
            ELSE replaceLog.phase
    IN [replaceLog EXCEPT
           !.phase = IF phase = "succeeded" /\ refetch THEN "reading" ELSE phase]

\* A component mounted; fetch: it sent an ingestion-list request.
LogRead(fetch) ==
    IF replaceLog.phase = "succeeded" /\ fetch
    THEN [replaceLog EXCEPT !.phase = "reading"]
    ELSE replaceLog

\* The answer to the ingestion-list request reached the cache.
LogFetched ==
    IF replaceLog.phase = "reading"
    THEN [replaceLog EXCEPT !.phase = "read"]
    ELSE replaceLog

\* Call c failed at the client.
LogFailed(c) ==
    CASE replaceLog.phase = "reading" /\ IsFetch(c) ->
             [replaceLog EXCEPT !.phase = "succeeded"]
      [] /\ replaceLog.phase = "stored"
         /\ c.kind = "setSymbols"
         /\ c.arg = replaceLog.list ->
             ReplaceLog("none", <<>>, FALSE)
      [] OTHER -> replaceLog

\* useQuery when its component mounts: it shares a fetch in flight, fetches
\* when the entry has no data or is invalidated, and otherwise fetches or
\* not as the data's age and the client's staleTime decide.
MountFetches(entry, calls) ==
    IF Fetches(calls) # {}
    THEN {FALSE}
    ELSE IF ~entry.has \/ entry.invalidated THEN {TRUE} ELSE BOOLEAN

\* The route changes and the new page's component mounts.
OpenPage(route) ==
    /\ route # pathname
    /\ pathname' = route
    /\ \/ /\ ObservedKey(route) = "none"
          /\ cacheEvent' = CacheEvent("mount", "none", FALSE)
          /\ UNCHANGED <<symbolCalls, configCalls, replaceLog>>
       \/ /\ ObservedKey(route) = "ingestedSymbols"
          /\ \E fetch \in MountFetches(queryCache.ingestedSymbols, symbolCalls) :
                /\ fetch => CallRoom
                /\ symbolCalls' =
                       IF fetch
                       THEN symbolCalls (+) SetToBag({GetIngestedSymbols})
                       ELSE symbolCalls
                /\ cacheEvent' = CacheEvent("mount", "ingestedSymbols", fetch)
                /\ replaceLog' = LogRead(fetch)
          /\ UNCHANGED configCalls
       \/ /\ ObservedKey(route) = "systemConfig"
          /\ \E fetch \in MountFetches(queryCache.systemConfig, configCalls) :
                /\ fetch => CallRoom
                /\ configCalls' =
                       IF fetch
                       THEN configCalls (+) SetToBag({GetSystemConfig})
                       ELSE configCalls
                /\ cacheEvent' = CacheEvent("mount", "systemConfig", fetch)
          /\ UNCHANGED <<symbolCalls, replaceLog>>
    /\ UNCHANGED <<outsideCache, backendSymbols, backendConfig, queryCache>>

\* The backend's list as a replacement is submitted, where recorded.
Held(kind) ==
    IF kind = "setSymbols" /\ replaceLog.phase = "submissions"
    THEN backendSymbols
    ELSE <<>>

\* A symbol mutation is sent: mutateAsync of the hook named by kind.
MutateSymbols(kind, arg) ==
    /\ CallRoom
    /\ symbolCalls' =
           symbolCalls (+)
           SetToBag({[SymbolCall(kind, arg) EXCEPT !.held = Held(kind)]})
    /\ cacheEvent' = CacheEvent("other", "none", FALSE)
    /\ UNCHANGED <<outsideCache, pathname, backendSymbols, backendConfig,
                   queryCache, configCalls, replaceLog>>

\* DiscoveryPage.handleAddSymbol: useAddSymbol on a search result.
AddFromDiscovery(symbol) ==
    /\ pathname = "/discovery"
    /\ MutateSymbols("addSymbol", <<symbol>>)

\* IngestionPage.handleRemoveSymbol: useRemoveSymbol on a table row.
RemoveFromTable(symbol) ==
    /\ pathname = "/ingestion"
    /\ \E i \in 1..Len(CachedList) : CachedList[i] = symbol
    /\ MutateSymbols("removeIngestedSymbol", <<symbol>>)

\* The modal's symbols alone go to useSetSymbols.
SubmitBatchOnly(symbols) ==
    /\ pathname = "/ingestion"
    /\ MutateSymbols("setSymbols", symbols)

\* IngestionPage.handleAddSymbol and handleBulkUpload: the merge of the
\* cached list and the modal's symbols goes to useSetSymbols.
SubmitMerged(symbols) ==
    /\ pathname = "/ingestion"
    /\ MutateSymbols("setSymbols", Reconcile(CachedList, symbols))

\* SystemConfig.handleSubmit: the draft, present once the config has
\* loaded, goes to useSetSystemConfig.
SaveConfig(config) ==
    /\ pathname = "/settings"
    /\ queryCache.systemConfig.has
    /\ CallRoom
    /\ configCalls' =
           configCalls (+) SetToBag({ConfigCall("setSystemConfig", config)})
    /\ cacheEvent' = CacheEvent("other", "none", FALSE)
    /\ UNCHANGED <<outsideCache, pathname, backendSymbols, backendConfig,
                   queryCache, symbolCalls, replaceLog>>

\* The backend's ingestion list after a request.
ServedSymbols(c) ==
    CASE c.kind = "setSymbols" -> c.arg
      [] c.kind = "addSymbol" ->
            IF \E i \in 1..Len(backendSymbols) :
                   Pair(backendSymbols[i]) = Pair(c.arg[1])
            THEN backendSymbols
            ELSE Append(backendSymbols, c.arg[1])
      [] c.kind = "removeIngestedSymbol" ->
            SelectSeq(backendSymbols, LAMBDA x : Pair(x) # Pair(c.arg[1]))
      [] OTHER -> backendSymbols

\* The backend serves an ingestion-list request.
ServeSymbolCall(c) ==
    /\ c.status = "sent"
    /\ backendSymbols' = ServedSymbols(c)
    /\ symbolCalls' =
           (symbolCalls (-) SetToBag({c})) (+)
           SetToBag({[c EXCEPT !.status = "ok",
                               !.data = IF IsFetch(c) THEN backendSymbols
                                        ELSE <<>>]})
    /\ replaceLog' = LogServed(c)
    /\ UNCHANGED <<outsideCache, pathname, backendConfig, queryCache,
                   configCalls, cacheEvent>>

\* The backend serves a system-config request.
ServeConfigCall(c) ==
    /\ c.status = "sent"
    /\ backendConfig' = IF IsFetch(c) THEN backendConfig ELSE c.arg
    /\ configCalls' =
           (configCalls (-) SetToBag({c})) (+)
           SetToBag({[c EXCEPT !.status = "ok",
                               !.data = IF IsFetch(c) THEN backendConfig
                                        ELSE ""]})
    /\ UNCHANGED <<outsideCache, pathname, backendSymbols, queryCache,
                   symbolCalls, cacheEvent, replaceLog>>

\* A fetch resolved: the entry takes the data and is valid again.
Fetched(entry, data) ==
    [has |-> TRUE, data |-> data, invalidated |-> FALSE]

FetchSymbolsOk(c) ==
    /\ IsFetch(c)
    /\ c.status = "ok"
    /\ queryCache' =
           [queryCache EXCEPT
               !.ingestedSymbols = Fetched(queryCache.ingestedSymbols, c.data)]
    /\ symbolCalls' = symbolCalls (-) SetToBag({c})
    /\ cacheEvent' = CacheEvent("other", "none", FALSE)
    /\ replaceLog' = LogFetched
    /\ UNCHANGED <<outsideCache, pathname, backendSymbols, backendConfig,
                   configCalls>>

FetchConfigOk(c) ==
    /\ IsFetch(c)
    /\ c.status = "ok"
    /\ queryCache' =
           [queryCache EXCEPT
               !.systemConfig = Fetched(queryCache.systemConfig, c.data)]
    /\ configCalls' = configCalls (-) SetToBag({c})
    /\ cacheEvent' = CacheEvent("other", "none", FALSE)
    /\ UNCHANGED <<outsideCache, pathname, backendSymbols, backendConfig,
                   symbolCalls, replaceLog>>

\* onSuccess: queryClient.invalidateQueries({ queryKey: [...] }) on the
\* entry.
OnSuccess(entry) == [entry EXCEPT !.invalidated = TRUE]

\* invalidateQueries with cancelRefetch: false: a fetch in flight is kept.
RefetchedKeepsFetch(calls, active, fetch) ==
    IF active /\ Fetches(calls) = {} THEN calls (+) SetToBag({fetch}) ELSE calls

\* invalidateQueries on the calls of a key: read by a mounted component,
\* the fetch in flight is cancelled and a new one sent.
Refetched(calls, active, fetch) ==
    IF active THEN WithoutFetch(calls) (+) SetToBag({fetch}) ELSE calls

\* Mutant: onSuccess calls invalidateQueries() with no query key.
SymbolMutationOkInvalidatesAll(c) ==
    /\ ~IsFetch(c)
    /\ c.status = "ok"
    /\ queryCache' =
           [queryCache EXCEPT
               !.ingestedSymbols = OnSuccess(queryCache.ingestedSymbols),
               !.systemConfig = OnSuccess(queryCache.systemConfig)]
    /\ LET active ==
               /\ ObservedKey(pathname) = "ingestedSymbols"
               /\ queryCache'.ingestedSymbols.invalidated
       IN /\ symbolCalls' =
                 Refetched(symbolCalls (-) SetToBag({c}), active,
                           GetIngestedSymbols)
          /\ cacheEvent' = CacheEvent("mutationOk", "ingestedSymbols", active)
          /\ replaceLog' = LogSucceeded(c, active)
    /\ UNCHANGED <<outsideCache, pathname, backendSymbols, backendConfig,
                   configCalls>>

\* useAddSymbol, useRemoveSymbol, useSetSymbols: the mutation resolved.
SymbolMutationOk(c) ==
    /\ ~IsFetch(c)
    /\ c.status = "ok"
    /\ queryCache' =
           [queryCache EXCEPT
               !.ingestedSymbols = OnSuccess(queryCache.ingestedSymbols)]
    /\ LET active ==
               /\ ObservedKey(pathname) = "ingestedSymbols"
               /\ queryCache'.ingestedSymbols.invalidated
       IN /\ symbolCalls' =
                 Refetched(symbolCalls (-) SetToBag({c}), active,
                           GetIngestedSymbols)
          /\ cacheEvent' = CacheEvent("mutationOk", "ingestedSymbols", active)
          /\ replaceLog' = LogSucceeded(c, active)
    /\ UNCHANGED <<outsideCache, pathname, backendSymbols, backendConfig,
                   configCalls>>

\* useSetSystemConfig: the mutation resolved.
ConfigMutationOk(c) ==
    /\ ~IsFetch(c)
    /\ c.status = "ok"
    /\ queryCache' =
           [queryCache EXCEPT
               !.systemConfig = OnSuccess(queryCache.systemConfig)]
    /\ LET active ==
               /\ ObservedKey(pathname) = "systemConfig"
               /\ queryCache'.systemConfig.invalidated
       IN /\ configCalls' =
                 Refetched(configCalls (-) SetToBag({c}), active,
                           GetSystemConfig)
          /\ cacheEvent' = CacheEvent("mutationOk", "systemConfig", active)
    /\ UNCHANGED <<outsideCache, pathname, backendSymbols, backendConfig,
                   symbolCalls, replaceLog>>

\* A call fails at the client (a non-2xx answer, or the network failing
\* before or after the backend served it): a fetch leaves its entry as it
\* is, a mutation runs no onSuccess.
SymbolCallFails(c) ==
    /\ symbolCalls' = symbolCalls (-) SetToBag({c})
    /\ cacheEvent' = CacheEvent("other", "none", FALSE)
    /\ replaceLog' = LogFailed(c)
    /\ UNCHANGED <<outsideCache, pathname, backendSymbols, backendConfig,
                   queryCache, configCalls>>

ConfigCallFails(c) ==
    /\ configCalls' = configCalls (-) SetToBag({c})
    /\ cacheEvent' = CacheEvent("other", "none", FALSE)
    /\ UNCHANGED <<outsideCache, pathname, backendSymbols, backendConfig,
                   queryCache, symbolCalls, replaceLog>>

\* A page load on one of the pages: its component mounts on an empty cache.
CacheInit ==
    /\ \E route \in CachePages : SignedIn(route)
    /\ MergeIdle
    /\ SearchIdle
    /\ StoreIdle
    /\ DraftIdle
    /\ replaceLog = ReplaceLog("off", <<>>, FALSE)
    /\ backendSymbols \in Lists
    /\ backendConfig \in Configs
    /\ queryCache = [ingestedSymbols |-> EmptyEntry(<<>>),
                     systemConfig |-> EmptyEntry("")]
    /\ symbolCalls =
           IF ObservedKey(pathname) = "ingestedSymbols"
           THEN SetToBag({GetIngestedSymbols}) ELSE EmptyBag
    /\ configCalls =
           IF ObservedKey(pathname) = "systemConfig"
           THEN SetToBag({GetSystemConfig}) ELSE EmptyBag
    /\ cacheEvent = CacheEvent("mount", ObservedKey(pathname),
                               ObservedKey(pathname) # "none")

CacheNext ==
    \/ \E route \in CachePages : OpenPage(route)
    \/ \E symbol \in CacheItems : AddFromDiscovery(symbol)
    \/ \E symbol \in CacheItems : RemoveFromTable(symbol)
    \/ \E symbols \in Lists \ {<<>>} : SubmitMerged(symbols)
    \/ \E config \in Configs : SaveConfig(config)
    \/ \E c \in BagToSet(symbolCalls) : ServeSymbolCall(c)
    \/ \E c \in BagToSet(configCalls) : ServeConfigCall(c)
    \/ \E c \in BagToSet(symbolCalls) : FetchSymbolsOk(c)
    \/ \E c \in BagToSet(configCalls) : FetchConfigOk(c)
    \/ \E c \in BagToSet(symbolCalls) : SymbolMutationOk(c)
    \/ \E c \in BagToSet(configCalls) : ConfigMutationOk(c)
    \/ \E c \in BagToSet(symbolCalls) : SymbolCallFails(c)
    \/ \E c \in BagToSet(configCalls) : ConfigCallFails(c)

SpecCache == CacheInit /\ [][CacheNext]_vars

\* The pages and hooks of the ingestion list alone, with the history of
\* the last full replacement recorded.
SymbolPages == {"/discovery", "/ingestion"}

SymbolsInit ==
    /\ \E route \in SymbolPages : SignedIn(route)
    /\ MergeIdle
    /\ SearchIdle
    /\ StoreIdle
    /\ DraftIdle
    /\ replaceLog = ReplaceLog("none", <<>>, FALSE)
    /\ backendSymbols \in Lists
    /\ backendConfig = "c1"
    /\ queryCache = [ingestedSymbols |-> EmptyEntry(<<>>),
                     systemConfig |-> EmptyEntry("")]
    /\ symbolCalls =
           IF ObservedKey(pathname) = "ingestedSymbols"
           THEN SetToBag({GetIngestedSymbols}) ELSE EmptyBag
    /\ configCalls = EmptyBag
    /\ cacheEvent = CacheEvent("mount", ObservedKey(pathname),
                               ObservedKey(pathname) # "none")

SymbolsNext ==
    \/ \E route \in SymbolPages : OpenPage(route)
    \/ \E symbol \in CacheItems : AddFromDiscovery(symbol)
    \/ \E symbol \in CacheItems : RemoveFromTable(symbol)
    \/ \E symbols \in Lists \ {<<>>} : SubmitMerged(symbols)
    \/ \E c \in BagToSet(symbolCalls) : ServeSymbolCall(c)
    \/ \E c \in BagToSet(symbolCalls) : FetchSymbolsOk(c)
    \/ \E c \in BagToSet(symbolCalls) : SymbolMutationOk(c)
    \/ \E c \in BagToSet(symbolCalls) : SymbolCallFails(c)

SpecSymbols == SymbolsInit /\ [][SymbolsNext]_vars

\* All three pages and all three keys, with one symbol to add, remove or
\* submit.
OneSymbol == [symbol |-> "A", exchange |-> "C", description |-> "d1"]

\* The discovery page's component is as mounted and the results of an
\* earlier search are cached under their key.
EarlierSearch == SearchParams("AAA", "", "")

SearchedBefore ==
    /\ searchString = ""
    /\ debouncedSearchString = ""
    /\ pendingDebounce = FALSE
    /\ sinceInput = 0
    /\ exchange = ""
    /\ securityType = ""
    /\ searchCalls = {}
    /\ searchCache = Stored({}, EarlierSearch, SearchResult(EarlierSearch))
    /\ quietMs = 0

\* A session under way: the QueryClient holds search results, its other
\* two entries are still empty.
KeysInit ==
    /\ \E route \in CachePages : SignedIn(route)
    /\ MergeIdle
    /\ SearchedBefore
    /\ StoreIdle
    /\ DraftIdle
    /\ replaceLog = ReplaceLog("off", <<>>, FALSE)
    /\ backendSymbols \in {<<>>, <<OneSymbol>>}
    /\ backendConfig \in Configs
    /\ queryCache = [ingestedSymbols |-> EmptyEntry(<<>>),
                     systemConfig |-> EmptyEntry("")]
    /\ symbolCalls =
           IF ObservedKey(pathname) = "ingestedSymbols"
           THEN SetToBag({GetIngestedSymbols}) ELSE EmptyBag
    /\ configCalls =
           IF ObservedKey(pathname) = "systemConfig"
           THEN SetToBag({GetSystemConfig}) ELSE EmptyBag
    /\ cacheEvent = CacheEvent("mount", ObservedKey(pathname),
                               ObservedKey(pathname) # "none")

KeysNext ==
    \/ \E route \in CachePages : OpenPage(route)
    \/ AddFromDiscovery(OneSymbol)
    \/ RemoveFromTable(OneSymbol)
    \/ SubmitMerged(<<OneSymbol>>)
    \/ \E config \in Configs : SaveConfig(config)
    \/ \E c \in BagToSet(symbolCalls) : ServeSymbolCall(c)
    \/ \E c \in BagToSet(configCalls) : ServeConfigCall(c)
    \/ \E c \in BagToSet(symbolCalls) : FetchSymbolsOk(c)
    \/ \E c \in BagToSet(configCalls) : FetchConfigOk(c)
    \/ \E c \in BagToSet(symbolCalls) : SymbolMutationOk(c)
    \/ \E c \in BagToSet(configCalls) : ConfigMutationOk(c)
    \/ \E c \in BagToSet(symbolCalls) : SymbolCallFails(c)
    \/ \E c \in BagToSet(configCalls) : ConfigCallFails(c)

SpecKeys == KeysInit /\ [][KeysNext]_vars

\* The same pages and hooks, each replacement request recording the
\* backend's list at its submission.
SubmissionsInit ==
    /\ \E route \in SymbolPages : SignedIn(route)
    /\ MergeIdle
    /\ SearchIdle
    /\ StoreIdle
    /\ DraftIdle
    /\ replaceLog = ReplaceLog("submissions", <<>>, FALSE)
    /\ backendSymbols \in Lists
    /\ backendConfig = "c1"
    /\ queryCache = [ingestedSymbols |-> EmptyEntry(<<>>),
                     systemConfig |-> EmptyEntry("")]
    /\ symbolCalls =
           IF ObservedKey(pathname) = "ingestedSymbols"
           THEN SetToBag({GetIngestedSymbols}) ELSE EmptyBag
    /\ configCalls = EmptyBag
    /\ cacheEvent = CacheEvent("mount", ObservedKey(pathname),
                               ObservedKey(pathname) # "none")

SpecSubmissions == SubmissionsInit /\ [][SymbolsNext]_vars

-----------------------------------------------------------------------------
(* Cache invalidation *)

\* C7: after every successful mutation the mutation's key is invalidated,
\* and the next read of an invalidated key (by the component mounted at the
\* time, or by the next one to mount) sends a fresh request to the backend.
C7_InvalidatedKeyIsFetchedAfresh ==
    /\ cacheEvent.type = "mutationOk" =>
           /\ queryCache[cacheEvent.key].invalidated
           /\ ObservedKey(pathname) = cacheEvent.key => cacheEvent.issued
    /\ (cacheEvent.type = "mount" /\ cacheEvent.key # "none") =>
           (queryCache[cacheEvent.key].invalidated => cacheEvent.issued)

-----------------------------------------------------------------------------
(* Full replacement *)

ChangesSent ==
    {c \in BagToSet(symbolCalls') :
         /\ ~IsFetch(c)
         /\ c.status = "sent"
         /\ CopiesIn(c, symbolCalls') > CopiesIn(c, symbolCalls)}

\* A complete replacement list: it holds every symbol of the cached list.
CompleteReplacement(c) ==
    /\ c.kind = "setSymbols"
    /\ \A i \in 1..Len(CachedList) :
           \E j \in 1..Len(c.arg) : Pair(c.arg[j]) = Pair(CachedList[i])

-----------------------------------------------------------------------------
(* The token store on its own: lib/auth.ts called in any order, in the     *)
(* browser and where no window exists (server-side rendering).             *)

MaxStoreCalls == 4

\* The tokens a caller saves; setToken takes any string.
SavedTokens == {"", "t0", "t1"}

outsideStore == <<validTokens, nextTok, pathname, wrapped, isLoading, gate,
                  navPending, inflight, loginLoading, verifiedOk, lastEvent,
                  mergeVars, searchVars, cacheVars, draftVars>>

StoreRoom == Len(storeLog) < MaxStoreCalls

CallSetToken(t) ==
    /\ StoreRoom
    /\ setToken(t)
    /\ storeLog' = Append(storeLog, StoreCall("save", t, ""))
    /\ UNCHANGED <<window, outsideStore>>

CallRemoveToken ==
    /\ StoreRoom
    /\ removeToken
    /\ storeLog' = Append(storeLog, StoreCall("clear", "", ""))
    /\ UNCHANGED <<window, outsideStore>>

CallGetToken ==
    /\ StoreRoom
    /\ storeLog' = Append(storeLog, StoreCall("read", "", getToken))
    /\ UNCHANGED <<token, window, outsideStore>>

CallIsAuthenticated ==
    /\ StoreRoom
    /\ storeLog' = Append(storeLog,
                          StoreCall("isPresent", "",
                                    IF isAuthenticated THEN "true" ELSE "false"))
    /\ UNCHANGED <<token, window, outsideStore>>

\* An empty localStorage, with or without a window.
StoreInit ==
    /\ MergeIdle
    /\ SearchIdle
    /\ CacheIdle
    /\ DraftIdle
    /\ window \in BOOLEAN
    /\ storeLog = <<>>
    /\ token = NoToken
    /\ validTokens = {}
    /\ nextTok = 1
    /\ pathname = LoginRoute
    /\ wrapped = FALSE
    /\ isLoading = FALSE
    /\ gate = "None"
    /\ navPending = ""
    /\ inflight = EmptyBag
    /\ loginLoading = FALSE
    /\ verifiedOk = FALSE
    /\ lastEvent = Ev("init", TRUE, "")

StoreNext ==
    \/ \E t \in SavedTokens : CallSetToken(t)
    \/ CallRemoveToken
    \/ CallGetToken
    \/ CallIsAuthenticated

SpecStore == StoreInit /\ [][StoreNext]_vars

\* The content of a single register after the calls: the argument of the
\* last save if no clear came after it, nothing otherwise.
Register(calls) ==
    LET writes == {i \in 1..Len(calls) : calls[i].op \in {"save", "clear"}}
    IN  IF writes = {} THEN NoToken
        ELSE LET last == CHOOSE i \in writes : \A j \in writes : j <= i
             IN  IF calls[last].op = "save" THEN calls[last].arg ELSE NoToken

\* What a read answers after the calls.
ReadAfter(calls) == IF window THEN Register(calls) ELSE NoToken

\* C21: over any sequence of save/read/clear the store is one register:
\* a read returns the token saved last and not cleared since, and nothing
\* before any save or after a clear; isPresent is true exactly when a read
\* would return a non-empty token; without a browser context a read
\* returns nothing and save and clear leave the store as it was.
C21_StoreIsSingleRegister ==
    /\ \A i \in 1..Len(storeLog) :
          LET before == SubSeq(storeLog, 1, i - 1)
          IN  /\ storeLog[i].op = "read" =>
                    storeLog[i].out = ReadAfter(before)
              /\ storeLog[i].op = "isPresent" =>
                    (storeLog[i].out = "true" <=> ReadAfter(before) # NoToken)
    /\ ~window => token = NoToken

C21_Witness ==
    /\ window
    /\ Len(storeLog) = 4
    /\ storeLog[1] = StoreCall("save", "t0", "")
    /\ storeLog[2] = StoreCall("read", "", "t0")
    /\ storeLog[3].op = "clear"
    /\ storeLog[4] = StoreCall("read", "", "")

-----------------------------------------------------------------------------
(* Adding never removes *)

\* The client ran the onSuccess of replacement request c in this step.
ReplacementSucceeds(c) ==
    /\ c.kind = "setSymbols"
    /\ c.status = "ok"
    /\ cacheEvent'.type = "mutationOk"
    /\ CopiesIn(c, symbolCalls') < CopiesIn(c, symbolCalls)

\* list holds an entry with the item's pair.
Holds(list, item) == \E i \in 1..Len(list) : Pair(list[i]) = Pair(item)

\* C22: a successful manual add or bulk upload from the ingestion page
\* removes no symbol: every symbol the backend's list held when the
\* submission was made is in it when the submission has succeeded, also
\* when the cached list was loading, had failed to load or was stale.
C22_AddingNeverRemoves ==
    [][\A c \in BagToSet(symbolCalls) :
           ReplacementSucceeds(c) =>
               \A i \in 1..Len(c.held) : Holds(backendSymbols', c.held[i])]_vars

-----------------------------------------------------------------------------
(* Who clears a credential *)

\* C23: a stored credential is cleared only by logout or by the failure of
\* a verification that was sent with that same credential; a verification
\* sent with an earlier credential that fails after a new login leaves
\* the new credential in the store.
C23_OnlyOwnVerificationClears ==
    [][(token # NoToken /\ token' = NoToken) =>
           \/ inflight' = inflight /\ lastEvent'.type = "logout"
           \/ \E r \in Pending :
                 /\ r.kind = "me"
                 /\ inflight' = Release(inflight, r)
                 /\ r.auth = Interceptor(token)]_vars

-----------------------------------------------------------------------------
(* Requests of a gated view *)

\* The requests sent in this step: unanswered, of the mounted view, and
\* not in flight before.
SentNow ==
    {r \in BagToSet(inflight') :
         /\ r.status = "sent"
         /\ r.mounted
         /\ CopiesIn(r, inflight') > CopiesIn(r, inflight)}

\* C24: a gated view issues no data-access request before its own mount's
\* gate is Authorized; while the gate is Unverified, Verifying or
\* Redirecting the only request the view causes is the current-user check.
C24_NoDataRequestBeforeAuthorized ==
    [][\A r \in SentNow :
           /\ (wrapped /\ r.kind \in DataKinds) =>
                  (gate = "Authorized" /\ ~isLoading)
           /\ (wrapped /\ gate \in {"Unverified", "Verifying", "Redirecting"}) =>
                  r.kind = "me"]_vars

\* A gated view that was authorized has a data-access request in flight,
\* sent with the stored token.
C24_Witness ==
    /\ wrapped
    /\ gate = "Authorized"
    /\ lastEvent.type = "request"
    /\ \E r \in Pending : r.kind \in DataKinds /\ r.mounted /\ r.status = "sent"

-----------------------------------------------------------------------------
(* Distinct pairs stay distinct *)

\* C25: the merge keeps one entry for every distinct (symbol, exchange)
\* pair of the current list or the batch; entries whose pairs differ in
\* symbol or in exchange are never collapsed into one, also when a symbol
\* or an exchange contains the '-' of the composite key.
C25_EveryDistinctPairKept ==
    mergePhase = "submitted" =>
        \A i \in 1..Len(Concatenation) :
            Cardinality(EntriesFor(submitted, Pair(Concatenation[i]))) = 1

-----------------------------------------------------------------------------
(* The gate decides *)

\* C26: when every /users/me/ call eventually succeeds or fails, a mount of
\* a gated view does not stay Unverified or Verifying for ever: it becomes
\* Authorized (the wrapped content is rendered) or Redirecting (the
\* navigation to the login page is issued).
C26_GateEventuallyDecides ==
    (wrapped /\ pathname # LoginRoute /\ gate \in {"Unverified", "Verifying"})
        ~> (wrapped /\ pathname # LoginRoute
            /\ gate \in {"Authorized", "Redirecting"})

\* The mount that followed a login has been authorized with the new token.
C26_Witness ==
    /\ wrapped
    /\ pathname # LoginRoute
    /\ gate = "Authorized"
    /\ ~isLoading
    /\ token = TokStr(1)
    /\ lastEvent = Ev("meOk", TRUE, "ok")

-----------------------------------------------------------------------------
(* What a mutation touches *)

\* The mutations of calls that the client finished with in this step (the
\* backend serving a call only changes the call's status).
Finished(calls, after) ==
    {c \in BagToSet(calls) :
         /\ ~IsFetch(c)
         /\ CopiesIn(c, after) < CopiesIn(c, calls)
         /\ BagCardinality(WithoutFetch(after)) <
                BagCardinality(WithoutFetch(calls))}

Succeeded == cacheEvent'.type = "mutationOk"

\* C27: a mutation touches its own cache key only, and only on success.
\* A failed mutation invalidates no key, changes no cached data and sends
\* no fetch; a successful ingestion-list mutation leaves the system-config
\* and search entries as they were, a successful config write the
\* ingestion-list and search entries.
C27_MutationTouchesOwnKeyOnly ==
    [][/\ (Finished(symbolCalls, symbolCalls') # {} /\ ~Succeeded) =>
              /\ queryCache' = queryCache
              /\ searchCache' = searchCache
              /\ Fetches(symbolCalls') = Fetches(symbolCalls)
              /\ configCalls' = configCalls
       /\ (Finished(configCalls, configCalls') # {} /\ ~Succeeded) =>
              /\ queryCache' = queryCache
              /\ searchCache' = searchCache
              /\ Fetches(configCalls') = Fetches(configCalls)
              /\ symbolCalls' = symbolCalls
       /\ (Finished(symbolCalls, symbolCalls') # {} /\ Succeeded) =>
              /\ queryCache'.ingestedSymbols.invalidated
              /\ queryCache'.ingestedSymbols.data =
                     queryCache.ingestedSymbols.data
              /\ queryCache'.systemConfig = queryCache.systemConfig
              /\ searchCache' = searchCache
              /\ configCalls' = configCalls
       /\ (Finished(configCalls, configCalls') # {} /\ Succeeded) =>
              /\ queryCache'.systemConfig.invalidated
              /\ queryCache'.systemConfig.data = queryCache.systemConfig.data
              /\ queryCache'.ingestedSymbols = queryCache.ingestedSymbols
              /\ searchCache' = searchCache
              /\ symbolCalls' = symbolCalls]_vars

\* An ingestion-list mutation has succeeded while the other two keys held
\* data, and the system-config entry is still valid.
C27_Witness ==
    /\ cacheEvent = CacheEvent("mutationOk", "ingestedSymbols", FALSE)
    /\ queryCache.ingestedSymbols.invalidated
    /\ queryCache.systemConfig.has
    /\ ~queryCache.systemConfig.invalidated
    /\ searchCache # {}

-----------------------------------------------------------------------------
(* Settings: the SystemConfig component.  Its inputs are of type number    *)
(* with no min, max or step, so the browser hands the handler the text of  *)
(* any number, or "" for a text that is not one.                           *)

Digits == <<"0", "1", "2", "3", "4", "5", "6", "7", "8", "9">>

DigitValue(c) == (CHOOSE d \in 1..10 : Digits[d] = c) - 1

RECURSIVE Whole(_)
Whole(ds) ==
    IF ds = <<>> THEN 0
    ELSE Whole(SubSeq(ds, 1, Len(ds) - 1)) * 10 + DigitValue(ds[Len(ds)])

\* Number(value) of a numeral with at most one decimal, in tenths;
\* Number("") is 0.
Number(value) ==
    LET neg == value # <<>> /\ value[1] = "-"
        body == IF neg THEN Tail(value) ELSE value
        dots == {i \in 1..Len(body) : body[i] = "."}
        dot == IF dots = {} THEN Len(body) + 1 ELSE CHOOSE i \in dots : TRUE
        frac == SubSeq(body, dot + 1, Len(body))
        tenths == Whole(SubSeq(body, 1, dot - 1)) * 10 +
                  (IF frac = <<>> THEN 0 ELSE DigitValue(frac[1]))
    IN  IF neg THEN 0 - tenths ELSE tenths

\* e.target.value of an input: "", 23, 24, 60, -1, 1.5.
InputValues ==
    {<<>>, <<"2", "3">>, <<"2", "4">>, <<"6", "0">>, <<"-", "1">>,
     <<"1", ".", "5">>}

ScheduleFields == {"schedule_hour", "schedule_minute"}

\* The config the backend holds at first: 09:30, five days.
FirstConfig == SystemConfigType(90, 300, [tf \in Timeframes |-> 50])

outsideDraft == <<authVars, mergeVars, searchVars, cacheVars, storeVars>>

\* useEffect on [config]: the query's data, which is the backend's first
\* config or the one submitted last, becomes the draft.
SystemConfigLoaded ==
    /\ \E config \in {FirstConfig} \cup
                     (IF configSent.present THEN {configSent.config} ELSE {}) :
          /\ localConfig' = Draft(TRUE, config)
          /\ localConfig' # localConfig
    /\ UNCHANGED <<configSent, outsideDraft>>

\* handleInputChange: the form is rendered once the draft is there.
HandleInputChange(name, value) ==
    /\ localConfig.present
    /\ localConfig' = [localConfig EXCEPT !.config[name] = Number(value)]
    /\ UNCHANGED <<configSent, outsideDraft>>

HandleTimeframeChange(name, value) ==
    /\ localConfig.present
    /\ localConfig' =
           [localConfig EXCEPT
               !.config.timeframes_to_fetch[name] = Number(value)]
    /\ UNCHANGED <<configSent, outsideDraft>>

\* handleSubmit: setConfigMutation.mutateAsync(localConfig).
SystemConfigSubmit ==
    /\ localConfig.present
    /\ configSent' = localConfig
    /\ UNCHANGED <<localConfig, outsideDraft>>

DraftInit ==
    /\ SignedIn("/settings")
    /\ MergeIdle
    /\ SearchIdle
    /\ StoreIdle
    /\ DraftIdle
    /\ CacheIdle

DraftNext ==
    \/ SystemConfigLoaded
    \/ \E name \in ScheduleFields, value \in InputValues :
          HandleInputChange(name, value)
    \/ \E name \in Timeframes, value \in InputValues :
          HandleTimeframeChange(name, value)
    \/ SystemConfigSubmit

SpecDraft == DraftInit /\ [][DraftNext]_vars

\* A whole number from low to high, in tenths.
WholeBetween(n, low, high) == n % 10 = 0 /\ n >= low * 10 /\ n <= high * 10

\* C28: every SystemConfig handed to write-system-config has a schedule
\* hour in 0..23, a schedule minute in 0..59 and a whole number of
\* lookback days for each timeframe, whatever edits the draft went through.
C28_SubmittedConfigInRange ==
    configSent.present =>
        /\ WholeBetween(configSent.config.schedule_hour, 0, 23)
        /\ WholeBetween(configSent.config.schedule_minute, 0, 59)
        /\ \A tf \in Timeframes :
               configSent.config.timeframes_to_fetch[tf] % 10 = 0

====
